---- MODULE Spec2Model ----
(***************************************************************************)
(* Model of the collector agent of Kewen526/jx_host_code: the browser      *)
(* session pool, the account lock registry and the task orchestrator,      *)
(* in browser-pool mode (USE_BROWSER_POOL = True, server IP obtained).     *)
(*                                                                         *)
(* Python list indices 0..n-1 are written 1..n here.                       *)
(***************************************************************************)
EXTENDS Integers, Sequences, FiniteSets, TLC

\* ------------------------------------------------------------------------
\* Bounds
\* ------------------------------------------------------------------------
MaxBrowsers == 2
MaxContextsPerBrowser == 1
MaxActiveContexts == 1
MaxTime == 2
\* Tasks that get to run; a lease fetched after that many is followed on the
\* CRITICAL branch of the pre-task check only.
MaxTasks == 1
\* Durations in ticks of the abstract clock
CONTEXT_IDLE_TIMEOUT == 1
KEEPALIVE_INTERVAL == 2
KEEPALIVE_FAIL_COOLDOWN == 1
\* NO_TASK_WAIT_SECONDS in chunks of keepalive_check_interval
NO_TASK_WAIT_CHUNKS == 2
\* Accounts per keepalive batch, envelopes the cookie upload queue holds
KEEPALIVE_BATCH_SIZE == 1
COOKIE_UPLOAD_QUEUE_SIZE == 2
\* Envelopes the upload worker gathers before it uploads, and the calls of
\* put followed when the queue is driven directly
COOKIE_UPLOAD_BATCH_SIZE == 2
MaxPuts == 3
\* Results in the list execute_single_task aggregates, when the aggregation
\* is followed on its own
MaxResults == 3
MaxPercent == 100

Accounts == {"A1", "A2", "A3"}
Slots == 1..MaxBrowsers
\* Cookie sets: "c1" as the coordinator first hands them out, "c2" as it
\* hands them out after a refresh; NoCookies where the caller passes none.
NoCookies == "none"
NoTime == 0 - 1

\* ------------------------------------------------------------------------
\* State
\* ------------------------------------------------------------------------
VARIABLES
    browsers,                 \* BrowserPoolManager._browsers
    browser_context_counts,   \* BrowserPoolManager._browser_context_counts
    contexts,                 \* BrowserPoolManager._contexts (insertion order)
    playwright,               \* BrowserPoolManager._playwright is not None
    now,                      \* datetime.now(), in abstract ticks
    locks,                    \* AccountLockManager._locks: holder per account
    pc,                       \* position of the main thread
    daemon_running,           \* _daemon_running
    lease,                    \* task_info of the current iteration
    total_tasks,              \* main: total_tasks
    success_tasks,            \* main: success_tasks
    failed_tasks,             \* main: failed_tasks
    task,                     \* locals of execute_single_task / run_all_tasks
    ka,                       \* locals of perform_keepalive_batch
    remaining_wait,           \* main: remaining_wait, in keepalive_check_interval units
    fail_cooldown,            \* KeepaliveService._fail_cooldown
    cookie_queue,             \* CookieUploadQueue._queue
    last_restart_date,        \* BrowserPoolManager._last_restart_date
    uploader,                 \* CookieUploadQueue._running, its thread and the
                              \* locals of _upload_worker
    ret                       \* the call made directly on the pool or on the
                              \* keepalive service in the last step, if any:
                              \* what it was given and what it returned

poolVars == <<browsers, browser_context_counts, contexts, playwright>>
counters == <<total_tasks, success_tasks, failed_tasks>>
mainVars == <<locks, pc, daemon_running, lease, total_tasks, success_tasks,
              failed_tasks, task, ka, remaining_wait, fail_cooldown>>
auxVars == <<cookie_queue, last_restart_date, uploader, ret>>
vars == <<browsers, browser_context_counts, contexts, playwright, now,
          locks, pc, daemon_running, lease, total_tasks, success_tasks,
          failed_tasks, task, ka, remaining_wait, fail_cooldown,
          cookie_queue, last_restart_date, uploader, ret>>

\* ------------------------------------------------------------------------
\* Browser session pool (src/browser_pool.py)
\* ------------------------------------------------------------------------

\* The pool as one value: operations map a pool to a pool.
Pool ==
    [browsers |-> browsers, counts |-> browser_context_counts,
     contexts |-> contexts, playwright |-> playwright]

SetPool(P) ==
    /\ browsers' = P.browsers
    /\ browser_context_counts' = P.counts
    /\ contexts' = P.contexts
    /\ playwright' = P.playwright

\* ContextWrapper.__init__
ContextWrapper(a, i, ck, t) ==
    [account |-> a, browser_index |-> i, last_used_at |-> t,
     last_keepalive_at |-> NoTime, cookies |-> ck, broken |-> FALSE]

has_context(P, a) == \E k \in DOMAIN P.contexts : P.contexts[k].account = a

WrapperOf(P, a) ==
    P.contexts[CHOOSE k \in DOMAIN P.contexts : P.contexts[k].account = a]

DelContext(cs, a) == SelectSeq(cs, LAMBDA c : c.account # a)

Dec(n) == IF n - 1 > 0 THEN n - 1 ELSE 0

is_browser_healthy(b) == b = "ok"

\* ContextWrapper.is_valid: the cheap probe (context.cookies(), page.url)
is_valid(P, w) == is_browser_healthy(P.browsers[w.browser_index]) /\ ~w.broken

create_browser(P, i, launch) ==
    IF P.playwright /\ launch
    THEN [pool |-> [P EXCEPT !.browsers[i] = "ok", !.counts[i] = 0], ok |-> TRUE]
    ELSE [pool |-> P, ok |-> FALSE]

rebuild_browser(P, i, launch) ==
    LET P1 == IF P.browsers[i] # "none"
              THEN [P EXCEPT !.browsers[i] = "none", !.counts[i] = 0]
              ELSE P
        P2 == [P1 EXCEPT !.contexts =
                  SelectSeq(P1.contexts, LAMBDA c : c.browser_index # i)]
    IN  create_browser(P2, i, launch)

MinOf(S) == CHOOSE x \in S : \A y \in S : x <= y

RECURSIVE RebuildAll(_, _, _)
RebuildAll(P, S, launch) ==
    IF S = {} THEN P
    ELSE RebuildAll(rebuild_browser(P, MinOf(S), launch).pool,
                    S \ {MinOf(S)}, launch)

\* A choice of slot that takes the least loaded healthy browser whether or
\* not it has room
PickSlot_uncapped(P, P1, launch) ==
    LET cand == {i \in Slots : is_browser_healthy(P.browsers[i])}
        best == {i \in cand : \A j \in cand : P.counts[i] <= P.counts[j]}
        empty == {i \in Slots : P1.browsers[i] = "none"}
    IN  IF cand # {} THEN [pool |-> P1, index |-> MinOf(best)]
        ELSE IF empty # {} /\ P1.playwright /\ launch
        THEN [pool |-> create_browser(P1, MinOf(empty), launch).pool,
              index |-> MinOf(empty)]
        ELSE [pool |-> P1, index |-> 0]

\* The choice of a slot once the unhealthy browsers have been rebuilt (P1).
\* Returns the chosen slot, or 0 where the code raises RuntimeError.
PickSlot(P, P1, launch) ==
    LET unhealthy == {i \in Slots : P.browsers[i] = "dead"}
        cand == {i \in Slots : /\ is_browser_healthy(P.browsers[i])
                               /\ P.counts[i] < MaxContextsPerBrowser}
        best == {i \in cand : \A j \in cand : P.counts[i] <= P.counts[j]}
        empty == {i \in Slots : P1.browsers[i] = "none"}
        rebuilt == {i \in unhealthy : P1.browsers[i] # "none"}
    IN  IF cand # {} THEN [pool |-> P1, index |-> MinOf(best)]
        ELSE IF empty # {} /\ P1.playwright /\ launch
        THEN [pool |-> create_browser(P1, MinOf(empty), launch).pool,
              index |-> MinOf(empty)]
        ELSE IF rebuilt # {} THEN [pool |-> P1, index |-> MinOf(rebuilt)]
        ELSE [pool |-> P1, index |-> 0]

\* A search that makes room on a full pool by closing its first context
find_available_browser_evicting(P, launch) ==
    IF P.contexts # <<>> /\ \A i \in Slots : P.counts[i] >= MaxContextsPerBrowser
    THEN [pool |-> [P EXCEPT !.contexts = Tail(P.contexts),
                             !.counts[P.contexts[1].browser_index] =
                                 Dec(P.counts[P.contexts[1].browser_index])],
          index |-> P.contexts[1].browser_index]
    ELSE PickSlot(P, RebuildAll(P, {i \in Slots : P.browsers[i] = "dead"}, launch),
                  launch)

find_available_browser(P, launch) ==
    PickSlot(P, RebuildAll(P, {i \in Slots : P.browsers[i] = "dead"}, launch),
             launch)

\* What the engine does during one attempt of get_context.
\*   launch : a browser launch succeeds
\*   newctx : "ok"      browser.new_context() returns
\*            "closed"  it raises "Target closed"; after the rebuild it returns
\*            "closed2" it raises "Target closed" again after the rebuild
\*            "other"   it raises another error
\*            "cookies" it returns, and context.add_cookies raises
\* (with launch = FALSE the rebuild fails, so "closed2" is the same as "closed")
\* In the answers below, leaked counts the engine contexts that new_context
\* returned and that were neither registered in the pool nor closed.
Engine ==
    {e \in [launch : BOOLEAN,
            newctx : {"ok", "closed", "closed2", "other", "cookies"}] :
        e.newctx \in {"closed2", "cookies"} => e.launch}
EngineOk == [launch |-> TRUE, newctx |-> "ok"]
EngineDown == [launch |-> FALSE, newctx |-> "other"]

\* A clean-up that leaves the stale wrapper in the map
DropStale_kept(P, a) == P

\* Lines 1118-1146: an existing wrapper is returned when valid, else cleaned.
DropStale(P, a) ==
    LET w == WrapperOf(P, a)
    IN  [P EXCEPT !.contexts = DelContext(P.contexts, a),
                  !.counts[w.browser_index] = Dec(P.counts[w.browser_index])]

Register(P, a, i, ck, t) ==
    [P EXCEPT !.contexts = Append(P.contexts, ContextWrapper(a, i, ck, t)),
              !.counts[i] = P.counts[i] + 1]

\* new_context on the chosen slot failed with "Target closed": r is the
\* result of rebuilding that browser, after which new_context is tried again.
AfterRebuild(f, r, a, ck, t, e) ==
    IF e.newctx = "closed" /\ r.ok
    THEN [pool |-> Register(r.pool, a, f.index, ck, t), ok |-> TRUE, cookies |-> ck,
          leaked |-> 0]
    ELSE [pool |-> r.pool, ok |-> FALSE, cookies |-> ck, leaked |-> 0]

\* The creation of a context on the slot f found by _find_available_browser
CreateOn(f, a, ck, t, e) ==
    IF f.index = 0
    THEN [pool |-> f.pool, ok |-> FALSE, cookies |-> ck, leaked |-> 0]
    ELSE IF e.newctx = "ok" \/ (e.newctx = "cookies" /\ ck = NoCookies)
    THEN [pool |-> Register(f.pool, a, f.index, ck, t), ok |-> TRUE, cookies |-> ck,
          leaked |-> 0]
    ELSE IF e.newctx = "cookies"
    THEN [pool |-> f.pool, ok |-> FALSE, cookies |-> ck, leaked |-> 1]
    ELSE IF e.newctx = "other"
    THEN [pool |-> f.pool, ok |-> FALSE, cookies |-> ck, leaked |-> 0]
    ELSE AfterRebuild(f, rebuild_browser(f.pool, f.index, e.launch), a, ck, t, e)

\* One pass of the retry loop; ok = FALSE where the body raised.
get_context_attempt(P, a, ck, t, e) ==
    IF has_context(P, a) /\ is_valid(P, WrapperOf(P, a))
    THEN [pool |-> [P EXCEPT !.contexts =
                       [k \in DOMAIN P.contexts |->
                           IF P.contexts[k].account = a
                           THEN [P.contexts[k] EXCEPT !.last_used_at = t]
                           ELSE P.contexts[k]]],
          ok |-> TRUE, cookies |-> ck, leaked |-> 0]
    ELSE IF has_context(P, a)
    THEN CreateOn(find_available_browser(DropStale(P, a), e.launch), a,
                  IF ck = NoCookies /\ WrapperOf(P, a).cookies # NoCookies
                  THEN WrapperOf(P, a).cookies ELSE ck,
                  t, e)
    ELSE CreateOn(find_available_browser(P, e.launch), a, ck, t, e)

get_context_max_retries == 2

\* es: one Engine per attempt; r is the result of the attempt just made.
RECURSIVE get_context_from(_, _, _, _, _, _)
AfterAttempt(r, a, t, es, attempt) ==
    IF r.ok \/ attempt >= get_context_max_retries
    THEN [pool |-> r.pool, ok |-> r.ok, leaked |-> r.leaked]
    ELSE [get_context_from(r.pool, a, r.cookies, t, es, attempt + 1)
             EXCEPT !.leaked = @ + r.leaked]

get_context_from(P, a, ck, t, es, attempt) ==
    AfterAttempt(get_context_attempt(P, a, ck, t, es[attempt]), a, t, es, attempt)

get_context(P, a, ck, t, es) == get_context_from(P, a, ck, t, es, 1)

\* One Engine per attempt; the retry meets an engine that works or one that
\* is down.
Engines ==
    {es \in [1..get_context_max_retries -> Engine] :
        \A n \in 2..get_context_max_retries : es[n] \in {EngineOk, EngineDown}}

\* The engine is consulted only when no valid wrapper exists.
EnginesFor(P, a) ==
    IF has_context(P, a) /\ is_valid(P, WrapperOf(P, a))
    THEN {[n \in 1..get_context_max_retries |-> EngineOk]}
    ELSE Engines

\* A removal that takes the oldest entry of the map instead of the account's
remove_context_first(P, a) ==
    IF has_context(P, a)
    THEN [P EXCEPT !.contexts = Tail(P.contexts),
                   !.counts[P.contexts[1].browser_index] =
                       Dec(P.counts[P.contexts[1].browser_index])]
    ELSE P

remove_context(P, a) ==
    IF has_context(P, a)
    THEN [P EXCEPT !.contexts = DelContext(P.contexts, a),
                   !.counts[WrapperOf(P, a).browser_index] =
                       Dec(P.counts[WrapperOf(P, a).browser_index])]
    ELSE P

cleanup_dead_browsers(P) ==
    LET dead == {i \in Slots : P.browsers[i] = "dead"}
    IN  [P EXCEPT !.contexts =
                     SelectSeq(P.contexts, LAMBDA c : c.browser_index \notin dead),
                  !.browsers = [i \in Slots |->
                                   IF i \in dead THEN "none" ELSE P.browsers[i]],
                  !.counts = [i \in Slots |->
                                   IF i \in dead THEN 0 ELSE P.counts[i]]]

\* Stable sort of a sequence of wrappers by last_used_at, oldest first
\* (sorted() is stable: ties keep dict insertion order).
RECURSIVE InsertByLastUsed(_, _)
InsertByLastUsed(s, c) ==
    IF s = <<>> THEN <<c>>
    ELSE IF s[Len(s)].last_used_at <= c.last_used_at THEN Append(s, c)
    ELSE Append(InsertByLastUsed(SubSeq(s, 1, Len(s) - 1), c), s[Len(s)])

RECURSIVE SortedByLastUsed(_)
SortedByLastUsed(s) ==
    IF s = <<>> THEN <<>>
    ELSE InsertByLastUsed(SortedByLastUsed(SubSeq(s, 1, Len(s) - 1)), s[Len(s)])

\* Close the given wrappers one by one, as the release loops do.
RECURSIVE ReleaseAll(_, _)
ReleaseAll(P, victims) ==
    IF victims = <<>> THEN P
    ELSE ReleaseAll([P EXCEPT
                        !.contexts = DelContext(P.contexts, victims[1].account),
                        !.counts[victims[1].browser_index] =
                            Dec(P.counts[victims[1].browser_index])],
                    Tail(victims))

release_idle_contexts(P, t) ==
    LET P1 == cleanup_dead_browsers(P)
        idle == SelectSeq(P1.contexts,
                          LAMBDA c : t - c.last_used_at >= CONTEXT_IDLE_TIMEOUT)
    IN  ReleaseAll(P1, SortedByLastUsed(idle))

\* A cap enforcement that releases the surplus from the most recently used
\* end
enforce_context_limit_newest(P) ==
    LET P1 == cleanup_dead_browsers(P)
        n == Len(P1.contexts)
        sorted == SortedByLastUsed(P1.contexts)
    IN  IF n <= MaxActiveContexts THEN P1
        ELSE ReleaseAll(P1, SubSeq(sorted, MaxActiveContexts + 1, n))

enforce_context_limit(P) ==
    LET P1 == cleanup_dead_browsers(P)
        n == Len(P1.contexts)
    IN  IF n <= MaxActiveContexts THEN P1
        ELSE ReleaseAll(P1, SubSeq(SortedByLastUsed(P1.contexts), 1,
                                   n - MaxActiveContexts))

\* An emergency release of floor(n/2) contexts, none when there is one
emergency_release_floor(P) ==
    LET P1 == cleanup_dead_browsers(P)
        n == Len(P1.contexts)
    IN  ReleaseAll(P1, SubSeq(SortedByLastUsed(P1.contexts), 1, n \div 2))

\* An emergency release that releases nothing
emergency_release_skipped(P) == P

emergency_release(P) ==
    LET P1 == cleanup_dead_browsers(P)
        n == Len(P1.contexts)
        to_release == IF n \div 2 > 1 THEN n \div 2 ELSE 1
    IN  IF n = 0 THEN P1
        ELSE ReleaseAll(P1, SubSeq(SortedByLastUsed(P1.contexts), 1, to_release))

\* A restore that installs the first cookie set whatever was saved
RECURSIVE RestoreAll_first(_, _, _, _, _)
RestoreAll_first(P, saved, t, es, k) ==
    IF k > Len(saved) THEN P
    ELSE RestoreAll_first(get_context(P, saved[k].account, "c1", t,
                                      [n \in 1..get_context_max_retries |-> es[k]]).pool,
                          saved, t, es, k + 1)

\* restart_browsers: es[k] is the engine behaviour while the k-th saved
\* account is re-created.
RECURSIVE RestoreAll(_, _, _, _, _)
RestoreAll(P, saved, t, es, k) ==
    IF k > Len(saved) THEN P
    ELSE RestoreAll(get_context(P, saved[k].account, saved[k].cookies, t,
                                [n \in 1..get_context_max_retries |-> es[k]]).pool,
                    saved, t, es, k + 1)

\* ContextWrapper.get_cookies: the cookies of the context; when the read
\* fails, the cookies the wrapper holds. The model keeps one cookie set per
\* wrapper, so both give that set.
get_cookies(w) == w.cookies

\* saved_cookies: what get_cookies reads from each context, in map order
saved_cookies(P) ==
    [k \in 1..Len(P.contexts) |->
        [account |-> P.contexts[k].account,
         cookies |-> get_cookies(P.contexts[k])]]

restart_browsers(P, t, es) ==
    LET saved == saved_cookies(P)
        P1 == [P EXCEPT !.contexts = <<>>,
                        !.browsers = [i \in Slots |-> "none"],
                        !.counts = [i \in Slots |-> 0]]
    IN  RestoreAll(P1, saved, t, es, 1)

\* The calendar reading of datetime.now(): a tick of the abstract clock is
\* half a day, the process starts in the small hours of day 1 and the restart
\* hour falls on the odd ticks.
BROWSER_RESTART_HOUR == 14
HourOf(t) == IF t % 2 = 1 THEN BROWSER_RESTART_HOUR ELSE 2
DateOf(t) == 1 + (t \div 2)
NoDate == 0

\* A check that restarts at the restart hour whatever the last restart date
check_and_restart_hourly(P, lrd, t, es) ==
    IF HourOf(t) = BROWSER_RESTART_HOUR
    THEN [pool |-> restart_browsers(P, t, es), last_restart_date |-> DateOf(t),
          restarted |-> TRUE]
    ELSE [pool |-> P, last_restart_date |-> lrd, restarted |-> FALSE]

\* check_and_restart: lrd is _last_restart_date, es the engine behaviour
\* during the re-creations should the restart run.
check_and_restart(P, lrd, t, es) ==
    IF HourOf(t) = BROWSER_RESTART_HOUR /\ lrd # DateOf(t)
    THEN [pool |-> restart_browsers(P, t, es), last_restart_date |-> DateOf(t),
          restarted |-> TRUE]
    ELSE [pool |-> P, last_restart_date |-> lrd, restarted |-> FALSE]

shutdown(P) ==
    [P EXCEPT !.contexts = <<>>,
              !.browsers = [i \in Slots |-> "none"],
              !.playwright = FALSE]


\* ------------------------------------------------------------------------
\* Resource monitor (src/browser_pool.py)
\* ------------------------------------------------------------------------
\* A check that lets keepalive run on every verdict short of CRITICAL
is_safe_for_keepalive_lenient(status) == status # "critical"

CPU_WARNING_THRESHOLD == 50
CPU_CRITICAL_THRESHOLD == 70
MEMORY_WARNING_THRESHOLD == 60
MEMORY_CRITICAL_THRESHOLD == 80

\* Samples of (CPU %, memory %) the host can show.
Readings ==
    {[cpu |-> 49, memory |-> 59], [cpu |-> 50, memory |-> 59],
     [cpu |-> 49, memory |-> 80]}

\* A classification whose thresholds are exclusive
check_status_exclusive(r) ==
    IF r.cpu > CPU_CRITICAL_THRESHOLD \/ r.memory > MEMORY_CRITICAL_THRESHOLD
    THEN "critical"
    ELSE IF r.cpu > CPU_WARNING_THRESHOLD \/ r.memory > MEMORY_WARNING_THRESHOLD
    THEN "warning"
    ELSE "normal"

\* ResourceMonitor.check_status(force=True) on a fresh sample r
check_status(r) ==
    IF r.cpu >= CPU_CRITICAL_THRESHOLD \/ r.memory >= MEMORY_CRITICAL_THRESHOLD
    THEN "critical"
    ELSE IF r.cpu >= CPU_WARNING_THRESHOLD \/ r.memory >= MEMORY_WARNING_THRESHOLD
    THEN "warning"
    ELSE "normal"

is_safe_for_keepalive(status) == status = "normal"

is_safe_for_task(status) == status # "critical"

\* ------------------------------------------------------------------------
\* Account lock registry (src/browser_pool.py, AccountLockManager)
\* A lock is "free" or carries the activity that took it.
\* ------------------------------------------------------------------------
LockKeys == Accounts \cup {""}

\* A registry that grants the lock without recording its holder
acquire_unrecorded(L, a, who) == [locks |-> L, ok |-> TRUE]

\* acquire(account_id, blocking=True, timeout=60): ok = FALSE is the timeout
acquire(L, a, who) ==
    IF L[a] = "free"
    THEN [locks |-> [L EXCEPT ![a] = who], ok |-> TRUE]
    ELSE [locks |-> L, ok |-> FALSE]

\* A try_lock that takes the lock whoever holds it
try_lock_granting(L, a, who) ==
    [locks |-> [L EXCEPT ![a] = who], ok |-> TRUE]

\* try_lock: acquire(blocking=False)
try_lock(L, a, who) ==
    IF L[a] = "free"
    THEN [locks |-> [L EXCEPT ![a] = who], ok |-> TRUE]
    ELSE [locks |-> L, ok |-> FALSE]

\* A release that leaves the lock with its holder
release_kept(L, a) == L

\* release: threading.Lock.release() frees the lock whoever took it
release(L, a) == [L EXCEPT ![a] = "free"]

\* ------------------------------------------------------------------------
\* Coordinator calls (src/meituan_collector.py)
\* ------------------------------------------------------------------------
\* A lease as fetch_task returns it. id 0 stands for a response without id.
\* date: "ok", "malformed", "reversed" (start after end) or "null" (JSON null).
GoodLease(a, ty) ==
    [id |-> 42, account |-> a, date |-> "ok", task_type |-> ty, terminals |-> <<>>]

Leases ==
    {GoodLease("A1", "all"), GoodLease("A2", "store_stats")}
    \cup {[GoodLease("", "all") EXCEPT !.id = 0],
          GoodLease("", "all"),
          GoodLease("A1", "bogus")}
    \cup {[GoodLease("A1", "all") EXCEPT !.date = d] :
             d \in {"malformed", "reversed", "null"}}

NoLease == [GoodLease("", "none") EXCEPT !.id = 0]

report_task_callback(l, status, error_message, retry_add) ==
    [l EXCEPT !.terminals =
        Append(@, [kind |-> "callback", status |-> status,
                   error_message |-> error_message, retry_add |-> retry_add])]

\* A reset that never reaches the coordinator
reset_dropped(l) == l

reset_task_schedule(l) ==
    [l EXCEPT !.terminals =
        Append(@, [kind |-> "reset", status |-> 0,
                   error_message |-> "", retry_add |-> 0])]

\* The end of execute_single_task: the callback computed from the results.
\* A result is [task_name, success, error_message]; the error message of the
\* callback is the list of the lines "[task_name] error_message" it joins.
\* An aggregation that reports the first failed result only
task_callback_first(results) ==
    LET failed == SelectSeq(results, LAMBDA r : ~r.success)
    IN  IF Len(failed) = 0
        THEN [status |-> 2, error_message |-> <<>>, retry_add |-> 0]
        ELSE [status |-> 3,
              error_message |-> <<[task_name |-> failed[1].task_name,
                                   error_message |-> failed[1].error_message]>>,
              retry_add |-> 1]

task_errors(results) ==
    LET failed == SelectSeq(results, LAMBDA r : ~r.success)
    IN  [k \in 1..Len(failed) |->
            [task_name |-> failed[k].task_name,
             error_message |-> failed[k].error_message]]

task_callback(results) ==
    IF Len(task_errors(results)) = 0
    THEN [status |-> 2, error_message |-> <<>>, retry_add |-> 0]
    ELSE [status |-> 3, error_message |-> task_errors(results), retry_add |-> 1]

ALL_TASK_NAMES ==
    {"store_stats", "kewen_daily_report", "promotion_daily_report",
     "review_detail_dianping", "review_detail_meituan",
     "review_summary_dianping", "review_summary_meituan"}

\* The statuses upload_task_status_batch sends for a list of results:
\* 0 not run, 2 succeeded, 3 failed; unknown task names are skipped.
upload_task_status_batch(results) ==
    [p \in ALL_TASK_NAMES |->
        IF \E r \in results : r.task_name = p
        THEN IF \E r \in results : r.task_name = p /\ r.success THEN 2 ELSE 3
        ELSE 0]

\* A batch in which one product is failed (3) and every other is not run (0)
MarksActiveOnly(b) ==
    \E p \in ALL_TASK_NAMES :
        b[p] = 3 /\ \A q \in ALL_TASK_NAMES \ {p} : b[q] = 0

PAGE_ORDER == <<"flow_analysis", "report", "review">>

PAGE_TASKS ==
    [flow_analysis |-> <<"store_stats">>,
     report |-> <<"kewen_daily_report", "promotion_daily_report">>,
     review |-> <<"review_detail_dianping", "review_detail_meituan",
                  "review_summary_dianping", "review_summary_meituan">>]

TASK_DISABLED_FLAGS == {"review_summary_dianping", "review_summary_meituan"}

EnabledTasks(page_key) ==
    SelectSeq(PAGE_TASKS[page_key], LAMBDA t : t \notin TASK_DISABLED_FLAGS)

\* Locals of execute_single_task and of the PageDrivenTaskExecutor it runs,
\* with the reports issued for the lease so far.
\*   results : "empty" | "ok" (no failed result) | "failed" (some failed result)
\*   wrapper : the cookies of the executor's _context_wrapper, NoWrapper if None
NoWrapper == "unset"

NewTask ==
    [step |-> "validate", page |-> 1, login_invalid |-> FALSE,
     results |-> "empty", ret |-> "none",
     relogins |-> 0, signal |-> FALSE, recovered |-> FALSE,
     account_invalid |-> FALSE, log_failure |-> FALSE, fanout |-> FALSE,
     batch_active |-> FALSE, invalid_end |-> "none", pool_failed |-> FALSE,
     wrapper |-> NoWrapper, stopped |-> FALSE,
     cookies |-> NoCookies, SHARED_SIGNATURE |-> NoCookies,
     current_cookies |-> NoCookies]

NoTask == [NewTask EXCEPT !.step = "none"]

report_auth_invalid(t) == [t EXCEPT !.account_invalid = TRUE]

log_failure(t) == [t EXCEPT !.log_failure = TRUE]

handle_auth_invalid(t, task_name) ==
    [log_failure(report_auth_invalid(t)) EXCEPT
        !.fanout = TRUE,
        !.batch_active =
            @ \/ MarksActiveOnly(upload_task_status_batch(
                     {[task_name |-> task_name, success |-> FALSE]}))]

\* ------------------------------------------------------------------------
\* Cookie upload queue (src/browser_pool.py, CookieUploadQueue)
\* ------------------------------------------------------------------------
Envelope(a, ck) == [account_id |-> a, cookies |-> ck]

\* A put that makes room by discarding the oldest item
put_evicting(q, a, ck) ==
    IF Len(q) < COOKIE_UPLOAD_QUEUE_SIZE THEN Append(q, Envelope(a, ck))
    ELSE Append(Tail(q), Envelope(a, ck))

\* put: put_nowait; queue.Full is caught and the envelope dropped
put(q, a, ck) ==
    IF Len(q) < COOKIE_UPLOAD_QUEUE_SIZE THEN Append(q, Envelope(a, ck)) ELSE q

\* The None that stop() queues and that get() yields on its timeout
Sentinel == [account_id |-> "None", cookies |-> "None"]

\* The queue after start(): _running is set and the daemon thread is at the
\* top of its loop with an empty batch. uploading is TRUE while a call of
\* _upload_single is in progress, stopped once stop() has returned. accepted
\* and uploaded log, in order, the envelopes that calls made directly on the
\* queue had accepted and those handed to _upload_single; offered counts
\* those calls.
StartedUploader ==
    [running |-> TRUE, thread |-> "alive", pc |-> "get", batch |-> <<>>,
     uploading |-> FALSE, stopped |-> FALSE,
     accepted |-> <<>>, uploaded |-> <<>>, offered |-> 0]

\* stop(): clears _running, queues the sentinel when there is room, joins the
\* thread for at most five seconds
stop(q, u) ==
    [queue |-> IF Len(q) < COOKIE_UPLOAD_QUEUE_SIZE THEN Append(q, Sentinel) ELSE q,
     uploader |-> [u EXCEPT !.running = FALSE, !.stopped = TRUE]]

\* A batch that grows at the front
take_front(batch, item) == <<item>> \o batch

\* batch.append(item)
take(batch, item) == Append(batch, item)

\* One pass of the loop of _upload_worker up to the uploads: get(timeout=1)
\* yields the head of the queue or, on an empty queue, None; elapsed tells
\* whether COOKIE_UPLOAD_INTERVAL has passed since the last upload.
worker_pass(q, u, elapsed) ==
    LET item == IF q = <<>> THEN Sentinel ELSE Head(q)
        rest == IF q = <<>> THEN q ELSE Tail(q)
    IN  IF item = Sentinel
        THEN [queue |-> rest,
              uploader |-> IF u.batch # <<>> /\ elapsed
                           THEN [u EXCEPT !.pc = "upload"] ELSE u]
        ELSE [queue |-> rest,
              uploader |->
                  [u EXCEPT !.batch = take(@, item),
                            !.pc = IF Len(u.batch) + 1 >= COOKIE_UPLOAD_BATCH_SIZE
                                      \/ elapsed
                                   THEN "upload" ELSE "get"]]

\* The loop condition found false: the worker leaves the loop and uploads
\* what its batch holds, or ends at once when it holds nothing
worker_leave(u) ==
    IF u.batch # <<>> THEN [u EXCEPT !.pc = "flush"]
    ELSE [u EXCEPT !.thread = "done"]

\* _upload_batch reaches its next item and calls _upload_single on it
upload_next(u) ==
    [u EXCEPT !.uploaded = Append(@, Head(u.batch)), !.batch = Tail(@),
              !.uploading = TRUE]

\* _upload_single returns (its exceptions are caught); after the last item
\* the worker is back in its loop, or ends if it had left the loop
upload_returns(u) ==
    IF u.batch # <<>> THEN [u EXCEPT !.uploading = FALSE]
    ELSE IF u.pc = "upload" THEN [u EXCEPT !.uploading = FALSE, !.pc = "get"]
    ELSE [u EXCEPT !.uploading = FALSE, !.thread = "done"]

\* ------------------------------------------------------------------------
\* Keepalive service (src/browser_pool.py, KeepaliveService)
\* ------------------------------------------------------------------------
is_in_cooldown(fc, a, t) == fc[a] # NoTime /\ t < fc[a]

\* _is_in_cooldown drops the records that have run out
ExpireCooldowns(P, fc, t) ==
    [a \in Accounts |->
        IF has_context(P, a) /\ fc[a] # NoTime /\ t >= fc[a] THEN NoTime ELSE fc[a]]

set_cooldown(fc, a, t) == [fc EXCEPT ![a] = t + KEEPALIVE_FAIL_COOLDOWN]

RECURSIVE InsertByLastKeepalive(_, _)
InsertByLastKeepalive(s, c) ==
    IF s = <<>> THEN <<c>>
    ELSE IF s[Len(s)].last_keepalive_at <= c.last_keepalive_at THEN Append(s, c)
    ELSE Append(InsertByLastKeepalive(SubSeq(s, 1, Len(s) - 1), c), s[Len(s)])

RECURSIVE SortedByLastKeepalive(_)
SortedByLastKeepalive(s) ==
    IF s = <<>> THEN <<>>
    ELSE InsertByLastKeepalive(SortedByLastKeepalive(SubSeq(s, 1, Len(s) - 1)),
                               s[Len(s)])

\* A selection that takes every pooled account, in map order
get_accounts_unfiltered(P, fc, t) ==
    [k \in 1..Len(P.contexts) |-> P.contexts[k].account]

\* Accounts due for keepalive, longest without keepalive first.
get_accounts_needing_keepalive(P, fc, t) ==
    LET due == SelectSeq(P.contexts,
                   LAMBDA c : /\ ~is_in_cooldown(fc, c.account, t)
                              /\ \/ c.last_keepalive_at = NoTime
                                 \/ t - c.last_keepalive_at >= KEEPALIVE_INTERVAL)
        sorted == SortedByLastKeepalive(due)
    IN  [k \in 1..Len(sorted) |-> sorted[k].account]

FirstN(s, n) == SubSeq(s, 1, IF Len(s) < n THEN Len(s) ELSE n)

NoKa == [batch |-> <<>>, idx |-> 0]

\* Field updates on the wrapper of account a
Touch(P, a, t) ==
    [P EXCEPT !.contexts =
        [k \in DOMAIN P.contexts |->
            IF P.contexts[k].account = a
            THEN [P.contexts[k] EXCEPT !.last_used_at = t]
            ELSE P.contexts[k]]]

TouchKeepalive(P, a, t) ==
    [P EXCEPT !.contexts =
        [k \in DOMAIN P.contexts |->
            IF P.contexts[k].account = a
            THEN [P.contexts[k] EXCEPT !.last_used_at = t, !.last_keepalive_at = t]
            ELSE P.contexts[k]]]

\* One account of a keepalive batch (_keepalive_single between try_lock and
\* release). out is what the portal answers to the keepalive navigation.
KeepaliveOutcomes == {"ok", "goto_failed", "login"}

\* A keepalive that, on a login URL, records a keepalive all the same
keepalive_single_advancing(P, fc, q, a, t, out) ==
    IF has_context(P, a) /\ out = "login"
    THEN [pool |-> TouchKeepalive(P, a, t), fc |-> set_cooldown(fc, a, t),
          queue |-> q, ok |-> FALSE, navigated |-> TRUE, reported |-> TRUE]
    ELSE [pool |-> P, fc |-> fc, queue |-> q, ok |-> FALSE,
          navigated |-> FALSE, reported |-> FALSE]

\* It answers the pool, the cooldowns and the queue it leaves, what it
\* returns (ok), whether the keepalive page was requested (navigated) and
\* whether the account was reported invalid to the backend (reported).
keepalive_single(P, fc, q, a, t, out) ==
    IF ~has_context(P, a)
    THEN [pool |-> P, fc |-> fc, queue |-> q, ok |-> FALSE,
          navigated |-> FALSE, reported |-> FALSE]
    ELSE IF ~is_valid(P, WrapperOf(P, a))
    THEN [pool |-> remove_context(P, a), fc |-> set_cooldown(fc, a, t),
          queue |-> q, ok |-> FALSE, navigated |-> FALSE, reported |-> FALSE]
    ELSE IF out = "goto_failed"
    THEN [pool |-> remove_context(P, a), fc |-> set_cooldown(fc, a, t),
          queue |-> q, ok |-> FALSE, navigated |-> TRUE, reported |-> FALSE]
    ELSE IF out = "login"
    THEN [pool |-> Touch(P, a, t), fc |-> set_cooldown(fc, a, t),
          queue |-> q, ok |-> FALSE, navigated |-> TRUE, reported |-> TRUE]
    ELSE [pool |-> TouchKeepalive(P, a, t), fc |-> fc,
          queue |-> put(q, a, get_cookies(WrapperOf(P, a))), ok |-> TRUE,
          navigated |-> TRUE, reported |-> FALSE]

\* The next account of the batch, from position k on, whose lock try_lock
\* obtains; idx > Len(batch) when there is none.
RECURSIVE NextLocked(_, _, _)
NextLocked(L, batch, k) ==
    IF k > Len(batch) THEN [locks |-> L, idx |-> k]
    ELSE IF try_lock(L, batch[k], "keepalive").ok
    THEN [locks |-> try_lock(L, batch[k], "keepalive").locks, idx |-> k]
    ELSE NextLocked(L, batch, k + 1)

\* _keepalive_single as a whole, try_lock and release included. S carries the
\* pool, the cooldowns, the queue and the locks, and what the batch has done
\* so far: success_count, the accounts whose keepalive page was requested,
\* those skipped because their lock was held, those reported invalid.
Attempted(S, a, r) ==
    [S EXCEPT !.pool = r.pool, !.fc = r.fc, !.queue = r.queue,
              !.success_count = IF r.ok THEN @ + 1 ELSE @,
              !.navigated = IF r.navigated THEN Append(@, a) ELSE @,
              !.reported = IF r.reported THEN @ \cup {a} ELSE @]

keepalive_attempt(S, a, t, out) ==
    IF ~try_lock(S.locks, a, "keepalive").ok
    THEN [S EXCEPT !.skipped = @ \cup {a}]
    ELSE Attempted(S, a, keepalive_single(S.pool, S.fc, S.queue, a, t, out))

\* The loop of perform_keepalive_batch from its k-th account on: ins[k] is
\* the resource sample taken before that account and what the portal answers.
RECURSIVE keepalive_loop(_, _, _, _, _)
keepalive_loop(S, batch, k, ins, t) ==
    IF k > Len(batch) THEN S
    ELSE IF ~is_safe_for_keepalive(check_status(ins[k].reading)) THEN S
    ELSE keepalive_loop(keepalive_attempt(S, batch[k], t, ins[k].out),
                        batch, k + 1, ins, t)

BatchInputs ==
    [1..KEEPALIVE_BATCH_SIZE -> [reading : Readings, out : KeepaliveOutcomes]]

\* The state the service works on and the record of one call
ServiceState(P, fc, q, L) ==
    [pool |-> P, fc |-> fc, queue |-> q, locks |-> L, success_count |-> 0,
     navigated |-> <<>>, skipped |-> {}, reported |-> {}]

\* perform_keepalive_batch once the resource check has passed: c is the
\* answer of check_and_restart.
keepalive_batch_run(c, fc, q, L, ins, t) ==
    keepalive_loop(
        ServiceState(c.pool, ExpireCooldowns(c.pool, fc, t), q, L),
        FirstN(get_accounts_needing_keepalive(c.pool, fc, t), KEEPALIVE_BATCH_SIZE),
        1, ins, t)

\* ------------------------------------------------------------------------
\* Initial state: the pool has been constructed and initialize() has run
\* with no state file to restore; the main loop has not started an iteration.
\* ------------------------------------------------------------------------
\* No direct call has been made yet
NoRet == [op |-> "none", account |-> "", ok |-> FALSE]

Init ==
    /\ browsers = [i \in Slots |-> "none"]
    /\ browser_context_counts = [i \in Slots |-> 0]
    /\ contexts = <<>>
    /\ playwright = TRUE
    /\ now = 0
    /\ locks = [a \in LockKeys |-> "free"]
    /\ pc = "top"
    /\ daemon_running = TRUE
    /\ lease = NoLease
    /\ total_tasks = 0
    /\ success_tasks = 0
    /\ failed_tasks = 0
    /\ task = NoTask
    /\ ka = NoKa
    /\ remaining_wait = 0
    /\ fail_cooldown = [a \in Accounts |-> NoTime]
    /\ cookie_queue = <<>>
    /\ last_restart_date = NoDate
    /\ uploader = StartedUploader
    /\ ret = NoRet

\* ------------------------------------------------------------------------
\* Environment: time passes, a browser process dies, a page crashes, the
\* process receives SIGINT/SIGTERM.
\* ------------------------------------------------------------------------
Tick ==
    /\ now < MaxTime
    /\ now' = now + 1
    /\ ret' = NoRet
    /\ UNCHANGED <<poolVars, mainVars, cookie_queue, last_restart_date, uploader>>

BrowserCrash(i) ==
    /\ browsers[i] = "ok"
    /\ browsers' = [browsers EXCEPT ![i] = "dead"]
    /\ ret' = NoRet
    /\ UNCHANGED <<browser_context_counts, contexts, playwright, now, mainVars,
                   cookie_queue, last_restart_date, uploader>>

ContextCrash(a) ==
    /\ has_context(Pool, a)
    /\ ~WrapperOf(Pool, a).broken
    /\ contexts' = [k \in DOMAIN contexts |->
                       IF contexts[k].account = a
                       THEN [contexts[k] EXCEPT !.broken = TRUE]
                       ELSE contexts[k]]
    /\ ret' = NoRet
    /\ UNCHANGED <<browsers, browser_context_counts, playwright, now, mainVars,
                   cookie_queue, last_restart_date, uploader>>

\* CookieUploadQueue._upload_worker takes the next envelope off the queue
UploadWorker ==
    /\ cookie_queue # <<>>
    /\ cookie_queue' = Tail(cookie_queue)
    /\ ret' = NoRet
    /\ UNCHANGED <<poolVars, now, mainVars, last_restart_date, uploader>>

\* _signal_handler
\* (SIGINT/SIGTERM arrive at any point of the main loop, a running task
\* included; the flag is read at the loop top and by interruptible_sleep only).
\* task.stopped remembers that the signal arrived while this task was running.
StopSignal ==
    /\ daemon_running
    /\ pc \notin {"finally", "done"}
    /\ daemon_running' = FALSE
    /\ task' = IF pc = "task" THEN [task EXCEPT !.stopped = TRUE] ELSE task
    /\ UNCHANGED <<poolVars, now, locks, pc, lease, counters, ka,
                   remaining_wait, fail_cooldown, auxVars>>

\* ------------------------------------------------------------------------
\* The pool driven directly: any sequence of its public operations.
\* ------------------------------------------------------------------------
PoolGot(a, g) ==
    /\ SetPool(g.pool)
    /\ ret' = [op |-> "get_context", account |-> a, ok |-> g.ok,
               leaked |-> g.leaked]

PoolGetContext(a, ck, es) ==
    /\ PoolGot(a, get_context(Pool, a, ck, now, es))
    /\ UNCHANGED <<now, mainVars, cookie_queue, last_restart_date, uploader>>

PoolRemoveContext(a) ==
    /\ SetPool(remove_context(Pool, a))
    /\ ret' = [op |-> "remove_context", account |-> a]
    /\ UNCHANGED <<now, mainVars, cookie_queue, last_restart_date, uploader>>

PoolReleaseIdle ==
    /\ SetPool(release_idle_contexts(Pool, now))
    /\ ret' = NoRet
    /\ UNCHANGED <<now, mainVars, cookie_queue, last_restart_date, uploader>>

\* The release loops return the number of contexts they closed (the
\* contexts of dead processes dropped by the clean-up are not counted).
released(P, Q) == Len(cleanup_dead_browsers(P).contexts) - Len(Q.contexts)

PoolEnforceLimit ==
    /\ SetPool(enforce_context_limit(Pool))
    /\ ret' = [op |-> "enforce_context_limit",
               released |-> released(Pool, enforce_context_limit(Pool))]
    /\ UNCHANGED <<now, mainVars, cookie_queue, last_restart_date, uploader>>

PoolEmergencyRelease ==
    /\ SetPool(emergency_release(Pool))
    /\ ret' = [op |-> "emergency_release",
               released |-> released(Pool, emergency_release(Pool))]
    /\ UNCHANGED <<now, mainVars, cookie_queue, last_restart_date, uploader>>

PoolRestart(es) ==
    /\ SetPool(restart_browsers(Pool, now, es))
    /\ last_restart_date' = DateOf(now)
    /\ ret' = [op |-> "restart_browsers", saved |-> saved_cookies(Pool)]
    /\ UNCHANGED <<now, mainVars, cookie_queue, uploader>>

PoolShutdown ==
    /\ playwright
    /\ SetPool(shutdown(Pool))
    /\ ret' = NoRet
    /\ UNCHANGED <<now, mainVars, cookie_queue, last_restart_date, uploader>>

RestartPlans == [1..Len(contexts) -> {EngineOk, EngineDown}]

\* The engine is consulted only when check_and_restart does restart.
RestartPlansAt(lrd, t) ==
    IF HourOf(t) = BROWSER_RESTART_HOUR /\ lrd # DateOf(t)
    THEN RestartPlans
    ELSE {[k \in 1..Len(contexts) |-> EngineOk]}

\* ------------------------------------------------------------------------
\* The keepalive service driven directly: perform_keepalive_batch called at
\* any moment, with any resource verdict, while tasks elsewhere fill the
\* pool and hold account locks and the upload worker empties the queue. The
\* browsers stay up.
\* ------------------------------------------------------------------------
\* The accounts the tasks elsewhere work on
Tenants == {"A1", "A2"}

TaskLocks(a) ==
    /\ acquire(locks, a, "task").ok
    /\ locks' = acquire(locks, a, "task").locks
    /\ ret' = NoRet
    /\ UNCHANGED <<poolVars, now, pc, daemon_running, lease, counters, task, ka,
                   remaining_wait, fail_cooldown, cookie_queue, last_restart_date, uploader>>

TaskUnlocks(a) ==
    /\ locks[a] = "task"
    /\ locks' = release(locks, a)
    /\ ret' = NoRet
    /\ UNCHANGED <<poolVars, now, pc, daemon_running, lease, counters, task, ka,
                   remaining_wait, fail_cooldown, cookie_queue, last_restart_date, uploader>>

\* The call returns -1 without having done anything
BatchRefused(verdict) ==
    /\ ret' = [op |-> "perform_keepalive_batch",
               verdict |-> verdict, result |-> 0 - 1, restarted |-> FALSE,
               batch |-> <<>>, navigated |-> <<>>, skipped |-> {},
               reported |-> {}]
    /\ UNCHANGED <<poolVars, fail_cooldown, cookie_queue, last_restart_date,
                   uploader>>

\* The call has run: c is the answer of check_and_restart, S the state the
\* loop left
BatchDone(verdict, c, batch, S) ==
    /\ SetPool(S.pool)
    /\ fail_cooldown' = S.fc
    /\ cookie_queue' = S.queue
    /\ last_restart_date' = c.last_restart_date
    /\ UNCHANGED uploader
    /\ ret' = [op |-> "perform_keepalive_batch",
               verdict |-> verdict, result |-> S.success_count,
               restarted |-> c.restarted, batch |-> batch,
               navigated |-> S.navigated, skipped |-> S.skipped,
               reported |-> S.reported]

BatchRun(verdict, c, ins) ==
    BatchDone(verdict, c,
              FirstN(get_accounts_needing_keepalive(c.pool, fail_cooldown, now),
                     KEEPALIVE_BATCH_SIZE),
              keepalive_batch_run(c, fail_cooldown, cookie_queue, locks, ins, now))

\* perform_keepalive_batch: verdict is what is_safe_for_keepalive sees on entry
KeepaliveBatch(verdict, es, ins) ==
    /\ IF ~is_safe_for_keepalive(verdict)
       THEN BatchRefused(verdict)
       ELSE BatchRun(verdict, check_and_restart(Pool, last_restart_date, now, es),
                     ins)
    /\ UNCHANGED <<now, locks, pc, daemon_running, lease, counters, task, ka,
                   remaining_wait>>

NextKeepalive ==
    \/ Tick
    \/ \E a \in Tenants :
          PoolGetContext(a, "c1", [n \in 1..get_context_max_retries |-> EngineOk])
    \/ \E a \in Tenants : TaskLocks(a)
    \/ \E a \in Tenants : TaskUnlocks(a)
    \/ UploadWorker
    \/ \E r \in Readings, es \in RestartPlansAt(last_restart_date, now),
          ins \in BatchInputs :
          KeepaliveBatch(check_status(r), es, ins)

SpecKeepalive == Init /\ [][NextKeepalive]_vars

\* ------------------------------------------------------------------------
\* The idle wait loop of main driven directly: one pass of its body (the
\* resource check and what follows it) on a pool that tasks have filled. The
\* main thread holds no account lock while it waits.
\* ------------------------------------------------------------------------
\* An idle pass that runs the keepalive batch on WARNING as well
idle_iteration_lenient(P, lrd, fc, q, L, status, es, ins, t) ==
    IF status = "critical"
    THEN [pool |-> emergency_release(P), fc |-> fc, queue |-> q,
          last_restart_date |-> lrd, navigated |-> <<>>, restarted |-> FALSE]
    ELSE LET c == check_and_restart(P, lrd, t, es)
             S == keepalive_batch_run(c, fc, q, L, ins, t)
         IN  [pool |-> enforce_context_limit(S.pool), fc |-> S.fc,
              queue |-> S.queue, last_restart_date |-> c.last_restart_date,
              navigated |-> S.navigated, restarted |-> c.restarted]

\* status is the verdict of check_status(force=True); on NORMAL
\* perform_keepalive_batch (whose own check reads the verdict just cached)
\* and then enforce_context_limit; the other branches `continue`
idle_iteration(P, lrd, fc, q, L, status, es, ins, t) ==
    IF status = "critical"
    THEN [pool |-> emergency_release(P), fc |-> fc, queue |-> q,
          last_restart_date |-> lrd, navigated |-> <<>>, restarted |-> FALSE]
    ELSE IF status = "warning"
    THEN [pool |-> release_idle_contexts(P, t), fc |-> fc, queue |-> q,
          last_restart_date |-> lrd, navigated |-> <<>>, restarted |-> FALSE]
    ELSE LET c == check_and_restart(P, lrd, t, es)
             S == keepalive_batch_run(c, fc, q, L, ins, t)
         IN  [pool |-> enforce_context_limit(S.pool), fc |-> S.fc,
              queue |-> S.queue, last_restart_date |-> c.last_restart_date,
              navigated |-> S.navigated, restarted |-> c.restarted]

IdleDone(status, I) ==
    /\ SetPool(I.pool)
    /\ fail_cooldown' = I.fc
    /\ cookie_queue' = I.queue
    /\ last_restart_date' = I.last_restart_date
    /\ ret' = [op |-> "idle_iteration", status |-> status,
               navigated |-> I.navigated, restarted |-> I.restarted]

IdleIteration(status, es, ins) ==
    /\ IdleDone(status, idle_iteration(Pool, last_restart_date, fail_cooldown,
                                       cookie_queue, locks, status, es, ins, now))
    /\ UNCHANGED <<now, locks, pc, daemon_running, lease, counters, task, ka,
                   remaining_wait, uploader>>

NextIdle ==
    \/ Tick
    \/ \E a \in Tenants :
          PoolGetContext(a, "c1", [n \in 1..get_context_max_retries |-> EngineOk])
    \/ UploadWorker
    \/ \E r \in Readings, es \in RestartPlansAt(last_restart_date, now),
          ins \in BatchInputs :
          IdleIteration(check_status(r), es, ins)

SpecIdle == Init /\ [][NextIdle]_vars

\* ------------------------------------------------------------------------
\* The cookie upload queue driven directly: producers call put, the daemon
\* thread runs _upload_worker, stop() is called once, and the process exits
\* after it.
\* ------------------------------------------------------------------------
QueueVars == <<poolVars, now, mainVars, last_restart_date>>

QueuePut(a, ck) ==
    /\ uploader.offered < MaxPuts
    /\ cookie_queue' = put(cookie_queue, a, ck)
    /\ uploader' = [uploader EXCEPT
                       !.offered = @ + 1,
                       !.accepted = IF Len(cookie_queue) < COOKIE_UPLOAD_QUEUE_SIZE
                                    THEN Append(@, Envelope(a, ck)) ELSE @]
    /\ ret' = [op |-> "put", account |-> a, cookies |-> ck,
               ok |-> Len(cookie_queue) < COOKIE_UPLOAD_QUEUE_SIZE]
    /\ UNCHANGED QueueVars

WorkerPass(elapsed) ==
    /\ uploader.thread = "alive" /\ uploader.pc = "get" /\ uploader.running
    /\ cookie_queue' = worker_pass(cookie_queue, uploader, elapsed).queue
    /\ uploader' = worker_pass(cookie_queue, uploader, elapsed).uploader
    /\ ret' = NoRet
    /\ UNCHANGED QueueVars

WorkerLeave ==
    /\ uploader.thread = "alive" /\ uploader.pc = "get" /\ ~uploader.running
    /\ uploader' = worker_leave(uploader)
    /\ ret' = NoRet
    /\ UNCHANGED <<QueueVars, cookie_queue>>

WorkerUpload ==
    /\ uploader.thread = "alive" /\ uploader.pc \in {"upload", "flush"}
    /\ ~uploader.uploading
    /\ uploader' = upload_next(uploader)
    /\ ret' = NoRet
    /\ UNCHANGED <<QueueVars, cookie_queue>>

WorkerUploaded ==
    /\ uploader.thread = "alive" /\ uploader.uploading
    /\ uploader' = upload_returns(uploader)
    /\ ret' = NoRet
    /\ UNCHANGED <<QueueVars, cookie_queue>>

QueueStop ==
    /\ ~uploader.stopped
    /\ cookie_queue' = stop(cookie_queue, uploader).queue
    /\ uploader' = stop(cookie_queue, uploader).uploader
    /\ ret' = NoRet
    /\ UNCHANGED QueueVars

\* join(timeout=5) has given up on a thread still inside _upload_single; the
\* main thread finishes shutdown_all and returns, and the interpreter exits
\* without waiting for a daemon thread.
ProcessExit ==
    /\ uploader.stopped /\ uploader.thread = "alive" /\ uploader.uploading
    /\ uploader' = [uploader EXCEPT !.thread = "killed"]
    /\ ret' = NoRet
    /\ UNCHANGED <<QueueVars, cookie_queue>>

NextQueue ==
    \/ \E a \in Tenants, ck \in {"c1", "c2"} : QueuePut(a, ck)
    \/ \E elapsed \in BOOLEAN : WorkerPass(elapsed)
    \/ WorkerLeave
    \/ WorkerUpload
    \/ WorkerUploaded
    \/ QueueStop
    \/ ProcessExit

SpecQueue == Init /\ [][NextQueue]_vars

\* ------------------------------------------------------------------------
\* The aggregation at the end of execute_single_task applied to result lists
\* ------------------------------------------------------------------------
Products == {"store_stats", "kewen_daily_report", "promotion_daily_report"}

Result(n, ok) ==
    [task_name |-> n, success |-> ok,
     error_message |-> IF ok THEN "" ELSE "failed"]

ResultLists ==
    UNION {[1..n -> {Result(p, ok) : p \in Products, ok \in BOOLEAN}] :
              n \in 0..MaxResults}

Aggregate(results) ==
    /\ ret' = [op |-> "task_callback", results |-> results,
               callback |-> task_callback(results)]
    /\ UNCHANGED <<poolVars, now, mainVars, cookie_queue, last_restart_date,
                   uploader>>

NextCallback == \E results \in ResultLists : Aggregate(results)

SpecCallback == Init /\ [][NextCallback]_vars

\* The cookie set the caller of get_context holds for an account: the callers
\* of A2 have been through a re-login, the others have not.
CallerCookies(a) == IF a = "A2" THEN "c2" ELSE "c1"

NextPool ==
    \/ Tick
    \/ \E i \in Slots : BrowserCrash(i)
    \/ \E a \in Accounts : ContextCrash(a)
    \/ \E a \in Accounts :
          \E ck \in {CallerCookies(a), NoCookies}, es \in EnginesFor(Pool, a) :
              PoolGetContext(a, ck, es)
    \/ \E a \in Accounts : PoolRemoveContext(a)
    \/ PoolReleaseIdle
    \/ PoolEnforceLimit
    \/ PoolEmergencyRelease
    \/ \E es \in RestartPlans : PoolRestart(es)
    \/ PoolShutdown

SpecPool == Init /\ [][NextPool]_vars

\* ------------------------------------------------------------------------
\* The resource monitor driven directly: the first check_status of a new
\* monitor (no cached verdict yet) on any pair of whole percentages, and the
\* two predicates evaluated on that verdict.
\* ------------------------------------------------------------------------
Percentages == 0..MaxPercent

Classify(cpu, memory) ==
    /\ ret = NoRet
    /\ LET status == check_status([cpu |-> cpu, memory |-> memory])
       IN  ret' = [op |-> "check_status", cpu |-> cpu, memory |-> memory,
                   status |-> status,
                   safe_for_keepalive |-> is_safe_for_keepalive(status),
                   safe_for_task |-> is_safe_for_task(status)]
    /\ UNCHANGED <<poolVars, now, mainVars, cookie_queue, last_restart_date,
                   uploader>>

NextMonitor == \E cpu \in Percentages, memory \in Percentages : Classify(cpu, memory)

SpecMonitor == Init /\ [][NextMonitor]_vars

\* ------------------------------------------------------------------------
\* Main loop (src/meituan_collector.py, main), browser-pool mode
\* ------------------------------------------------------------------------
\* A loop top that does not read the shutdown flag
MainLoopTop_ignoring ==
    /\ pc = "top"
    /\ pc' = "fetch"
    /\ task' = NoTask
    /\ UNCHANGED <<poolVars, now, locks, daemon_running, lease, counters, ka,
                   remaining_wait, fail_cooldown, auxVars>>

\* while _daemon_running: ... ; the work-window check passes (DEV_MODE)
MainLoopTop ==
    /\ pc = "top"
    /\ pc' = IF daemon_running THEN "fetch" ELSE "finally"
    /\ task' = NoTask
    /\ UNCHANGED <<poolVars, now, locks, daemon_running, lease, counters, ka,
                   remaining_wait, fail_cooldown, auxVars>>

\* create_task_schedule, fetch_task; without a task the idle wait starts
FetchTask ==
    /\ pc = "fetch"
    /\ \/ /\ lease' = NoLease
          /\ remaining_wait' = NO_TASK_WAIT_CHUNKS
          /\ pc' = "idle"
       \/ /\ lease' \in Leases
          /\ pc' = "pretask"
          /\ UNCHANGED remaining_wait
    /\ UNCHANGED <<poolVars, now, locks, daemon_running, counters, task, ka,
                   fail_cooldown, auxVars>>

\* keepalive_service.perform_keepalive_batch on a NORMAL reading: P1 is the
\* pool after check_and_restart, batch the accounts chosen, n the first of
\* them whose lock try_lock obtained.
StartBatch(P1, fc1, batch, n) ==
    /\ fail_cooldown' = fc1
    /\ IF n.idx > Len(batch)
       THEN /\ SetPool(enforce_context_limit(P1))
            /\ pc' = "idle"
            /\ UNCHANGED <<locks, ka>>
       ELSE /\ SetPool(P1)
            /\ locks' = n.locks
            /\ ka' = [batch |-> batch, idx |-> n.idx]
            /\ pc' = "ka_run"

SelectBatch(P1, fc1, batch) ==
    StartBatch(P1, fc1, batch, NextLocked(locks, batch, 1))

KeepaliveCycle(c) ==
    /\ last_restart_date' = c.last_restart_date
    /\ SelectBatch(c.pool, ExpireCooldowns(c.pool, fail_cooldown, now),
                   FirstN(get_accounts_needing_keepalive(c.pool, fail_cooldown, now),
                          KEEPALIVE_BATCH_SIZE))

\* One pass of the idle wait loop: sleep a chunk, then by resource status
\* emergency release, idle release, or a keepalive batch whose first account
\* is locked here.
IdleStep ==
    /\ pc = "idle"
    /\ IF remaining_wait = 0 \/ ~daemon_running
       THEN /\ pc' = IF daemon_running THEN "top" ELSE "finally"
            /\ UNCHANGED <<poolVars, locks, ka, remaining_wait, fail_cooldown,
                           last_restart_date, uploader>>
       ELSE /\ remaining_wait' = remaining_wait - 1
            /\ IF remaining_wait - 1 <= 0
               THEN /\ pc' = "idle"
                    /\ UNCHANGED <<poolVars, locks, ka, fail_cooldown,
                                   last_restart_date, uploader>>
               ELSE \E r \in Readings :
                      IF check_status(r) = "critical"
                      THEN /\ SetPool(emergency_release(Pool))
                           /\ pc' = "idle"
                           /\ UNCHANGED <<locks, ka, fail_cooldown,
                                          last_restart_date, uploader>>
                      ELSE IF check_status(r) = "warning"
                      THEN /\ SetPool(release_idle_contexts(Pool, now))
                           /\ pc' = "idle"
                           /\ UNCHANGED <<locks, ka, fail_cooldown,
                                          last_restart_date, uploader>>
                      ELSE \E es \in RestartPlansAt(last_restart_date, now) :
                             KeepaliveCycle(check_and_restart(
                                 Pool, last_restart_date, now, es))
    /\ UNCHANGED <<now, daemon_running, lease, counters, task, cookie_queue,
                   uploader, ret>>

\* The end of _keepalive_single for the locked account (k is its result, L1
\* the locks after its release) and the step to the next account of the
\* batch (resource re-check, try_lock: n) or the end of the batch with
\* enforce_context_limit.
AfterKeepalive(k, L1, n, safe) ==
    /\ fail_cooldown' = k.fc
    /\ cookie_queue' = k.queue
    /\ IF ka.idx < Len(ka.batch) /\ safe /\ n.idx <= Len(ka.batch)
       THEN /\ SetPool(k.pool)
            /\ locks' = n.locks
            /\ ka' = [ka EXCEPT !.idx = n.idx]
            /\ pc' = "ka_run"
       ELSE /\ SetPool(enforce_context_limit(k.pool))
            /\ locks' = L1
            /\ ka' = NoKa
            /\ pc' = "idle"

KeepaliveRun ==
    /\ pc = "ka_run"
    /\ \E out \in KeepaliveOutcomes, r \in Readings :
         AfterKeepalive(
             keepalive_single(Pool, fail_cooldown, cookie_queue,
                              ka.batch[ka.idx], now, out),
             release(locks, ka.batch[ka.idx]),
             NextLocked(release(locks, ka.batch[ka.idx]), ka.batch, ka.idx + 1),
             is_safe_for_keepalive(check_status(r)))
    /\ UNCHANGED <<now, daemon_running, lease, counters, task, remaining_wait,
                   last_restart_date, uploader, ret>>

\* Pre-task resource check; on CRITICAL the lease is handed back and the pool
\* is asked for an emergency release, otherwise the task is counted and the
\* account lock acquired (timeout 60 s).
PreTaskCheck ==
    /\ pc = "pretask"
    /\ \E r \in Readings :
         LET status == check_status(r)
             acq == acquire(locks, lease.account, "task")
         IN  /\ total_tasks < MaxTasks \/ status = "critical"
             /\ IF status = "critical"
                THEN /\ lease' = IF lease.id # 0 THEN reset_task_schedule(lease)
                                 ELSE lease
                     /\ SetPool(emergency_release(Pool))
                     /\ pc' = "critical_sleep"
                     /\ UNCHANGED <<locks, counters, task>>
                ELSE /\ total_tasks' = total_tasks + 1
                     /\ IF acq.ok
                        THEN /\ locks' = acq.locks
                             /\ task' = NewTask
                             /\ pc' = "task"
                             /\ UNCHANGED <<success_tasks, failed_tasks>>
                        ELSE /\ failed_tasks' = failed_tasks + 1
                             /\ pc' = "top"
                             /\ UNCHANGED <<locks, task, success_tasks>>
                     /\ UNCHANGED <<poolVars, lease>>
    /\ UNCHANGED <<now, daemon_running, ka, remaining_wait, fail_cooldown,
                   auxVars>>

\* interruptible_sleep(30) after the CRITICAL verdict
CriticalSleep ==
    /\ pc = "critical_sleep"
    /\ pc' = IF daemon_running THEN "top" ELSE "finally"
    /\ UNCHANGED <<poolVars, now, locks, daemon_running, lease, counters, task,
                   ka, remaining_wait, fail_cooldown, auxVars>>

\* execute_single_task returned: the lock is released, the counters updated.
Return(success) ==
    /\ locks' = release(locks, lease.account)
    /\ success_tasks' = IF success THEN success_tasks + 1 ELSE success_tasks
    /\ failed_tasks' = IF success THEN failed_tasks ELSE failed_tasks + 1
    /\ pc' = "top"
    /\ UNCHANGED total_tasks

\* An exception left execute_single_task: the lock is released by the
\* finally clause, main's handler sleeps 60 s.
Raise ==
    /\ locks' = release(locks, lease.account)
    /\ pc' = IF daemon_running THEN "top" ELSE "finally"
    /\ UNCHANGED counters

\* execute_single_task reports failure and returns False
Fail(t, error_message, retry_add) ==
    /\ task' = [t EXCEPT !.step = "returned"]
    /\ lease' = report_task_callback(lease, 3, error_message, retry_add)
    /\ Return(FALSE)

valid_tasks == {"all"} \cup ALL_TASK_NAMES

\* Parameter validation. validate_date catches ValueError only: a date that
\* is not a string makes strptime raise TypeError.
TaskValidate ==
    /\ pc = "task" /\ task.step = "validate"
    /\ IF lease.account = "" THEN Fail(task, "account_empty", 1)
       ELSE IF lease.date = "null"
       THEN /\ task' = [task EXCEPT !.step = "raised"]
            /\ Raise
            /\ UNCHANGED lease
       ELSE IF lease.date = "malformed" THEN Fail(task, "date_format", 1)
       ELSE IF lease.date = "reversed" THEN Fail(task, "date_order", 1)
       ELSE IF lease.task_type \notin valid_tasks THEN Fail(task, "task_name", 1)
       ELSE /\ task' = [task EXCEPT !.step = "account"]
            /\ UNCHANGED <<locks, pc, lease, counters>>
    /\ UNCHANGED <<poolVars, now, daemon_running, ka, remaining_wait,
                   fail_cooldown, auxVars>>

RunStep(ty) == IF ty = "all" THEN "start" ELSE "single"

\* A check that lets the coordinator retry a lease of an invalid account
platform_account_check_retrying(out) ==
    IF out = "failed"
    THEN [ok |-> FALSE, error_message |-> "platform_account", retry_add |-> 1]
    ELSE IF out = "invalid"
    THEN [ok |-> FALSE, error_message |-> "auth_status_invalid", retry_add |-> 1]
    ELSE [ok |-> TRUE, error_message |-> "", retry_add |-> 0]

\* What execute_single_task makes of the answer of get_platform_account:
\* "failed" (success is false), "invalid" (auth_status is invalid),
\* "no_template" (templates_id missing) or "ok"
platform_account_check(out) ==
    IF out = "failed"
    THEN [ok |-> FALSE, error_message |-> "platform_account", retry_add |-> 1]
    ELSE IF out = "invalid"
    THEN [ok |-> FALSE, error_message |-> "auth_status_invalid", retry_add |-> 0]
    ELSE [ok |-> TRUE, error_message |-> "", retry_add |-> 0]

\* get_platform_account and the auth_status / templates_id checks
TaskAccount ==
    /\ pc = "task" /\ task.step = "account"
    /\ \E out \in {"failed", "invalid", "no_template", "ok"} :
         IF ~platform_account_check(out).ok
         THEN Fail(log_failure(task), platform_account_check(out).error_message,
                   platform_account_check(out).retry_add)
         ELSE /\ task' = [task EXCEPT !.step = IF out = "no_template" THEN "template"
                                                ELSE RunStep(lease.task_type)]
              /\ UNCHANGED <<locks, pc, lease, counters>>
    /\ UNCHANGED <<poolVars, now, daemon_running, ka, remaining_wait,
                   fail_cooldown, auxVars>>

\* ensure_template_id_with_browser in pool mode; g is what get_context gave,
\* out what the report-center page answered.
ensure_template_id_with_browser(g, a, t, out, tk) ==
    IF ~g.ok
    THEN [pool |-> g.pool,
          task |-> [log_failure(tk) EXCEPT !.pool_failed = TRUE], ok |-> FALSE]
    ELSE IF out = "goto_failed"
    THEN [pool |-> remove_context(g.pool, a), task |-> tk, ok |-> FALSE]
    ELSE IF out = "login"
    THEN [pool |-> Touch(g.pool, a, t), task |-> report_auth_invalid(tk),
          ok |-> FALSE]
    ELSE [pool |-> Touch(g.pool, a, t), task |-> tk, ok |-> out = "ok"]

\* execute_single_task with the answer r of ensure_template_id_with_browser
AfterTemplate(r) ==
    /\ SetPool(r.pool)
    /\ IF r.ok
       THEN /\ task' = [r.task EXCEPT !.step = RunStep(lease.task_type)]
            /\ UNCHANGED <<locks, pc, lease, counters>>
       ELSE Fail(log_failure(r.task), "templates_id", 1)

TaskTemplate ==
    /\ pc = "task" /\ task.step = "template"
    /\ \E es \in EnginesFor(Pool, lease.account),
          out \in {"ok", "goto_failed", "login", "no_template"} :
         AfterTemplate(ensure_template_id_with_browser(
                           get_context(Pool, lease.account, "c1", now, es),
                           lease.account, now, out, task))
    /\ UNCHANGED <<now, daemon_running, ka, remaining_wait, fail_cooldown,
                   auxVars>>

\* A single product run directly through TASK_MAP
TaskSingle ==
    /\ pc = "task" /\ task.step = "single"
    /\ \E out \in {"ok", "failed", "signal", "exception"} :
         IF out = "exception" THEN Fail(task, "exception", 1)
         ELSE /\ task' =
                   IF out = "ok" THEN [task EXCEPT !.results = "ok", !.step = "finish"]
                   ELSE IF out = "failed"
                   THEN [task EXCEPT !.results = "failed", !.step = "finish"]
                   ELSE [handle_auth_invalid(task, lease.task_type) EXCEPT
                            !.results = "failed", !.signal = TRUE, !.step = "finish"]
              /\ UNCHANGED <<locks, pc, lease, counters>>
    /\ UNCHANGED <<poolVars, now, daemon_running, ka, remaining_wait,
                   fail_cooldown, auxVars>>

LoginStatuses == {"logged_in", "not_logged_in", "timeout"}

\* start_browser in pool mode from get_context on (g is its answer), and the
\* except clause of run_all_tasks for what start_browser raises.
start_browser(g, a, t, status, tk) ==
    IF ~g.ok
    THEN [pool |-> g.pool,
          task |-> [tk EXCEPT !.pool_failed = TRUE, !.step = "finish",
                              !.wrapper = NoWrapper]]
    ELSE IF status = "logged_in"
    THEN [pool |-> Touch(g.pool, a, t),
          task |-> [tk EXCEPT !.step = "page",
                              !.wrapper = WrapperOf(g.pool, a).cookies]]
    ELSE IF status = "not_logged_in"
    THEN [pool |-> remove_context(g.pool, a),
          task |-> [handle_auth_invalid(report_auth_invalid(tk), "task_execution")
                      EXCEPT !.invalid_end = "initial", !.step = "finish",
                             !.wrapper = WrapperOf(g.pool, a).cookies]]
    ELSE [pool |-> g.pool,
          task |-> [tk EXCEPT !.step = "finish",
                              !.wrapper = WrapperOf(g.pool, a).cookies]]

\* The cookies _load_account_info takes: those of the pooled wrapper if it
\* has any, else those fetched from the API.
load_account_cookies(P, a) ==
    IF has_context(P, a) /\ WrapperOf(P, a).cookies # NoCookies
    THEN WrapperOf(P, a).cookies ELSE "c1"

\* _load_account_info: self.cookies comes from the pooled context or from the
\* coordinator, and SHARED_SIGNATURE['cookies'] is initialised with it
load_account_info(t, P, a) ==
    [t EXCEPT !.cookies = load_account_cookies(P, a),
              !.SHARED_SIGNATURE = load_account_cookies(P, a)]

Started(r) ==
    /\ SetPool(r.pool)
    /\ task' = r.task

\* run_all_tasks up to the page loop: _load_account_info and start_browser.
\* Whatever is raised here is caught by run_all_tasks, which then returns the
\* results collected so far (none).
TaskStartBrowser ==
    /\ pc = "task" /\ task.step = "start"
    /\ \/ \* load_cookies_from_api raises
          /\ task' = [task EXCEPT !.step = "finish"]
          /\ UNCHANGED poolVars
       \/ \* the pooled context is still logged in
          /\ has_context(Pool, lease.account)
          /\ is_valid(Pool, WrapperOf(Pool, lease.account))
          /\ SetPool(Touch(Pool, lease.account, now))
          /\ task' = [load_account_info(task, Pool, lease.account) EXCEPT
                          !.step = "page",
                          !.wrapper = WrapperOf(Pool, lease.account).cookies]
       \/ \* no usable context: remove the old one, ask the pool
          \E es \in Engines, status \in LoginStatuses :
            Started(start_browser(
                        get_context(remove_context(Pool, lease.account),
                                    lease.account,
                                    load_account_cookies(Pool, lease.account),
                                    now, es),
                        lease.account, now, status,
                        load_account_info(task, Pool, lease.account)))
    /\ UNCHANGED <<now, locks, pc, daemon_running, lease, counters, ka,
                   remaining_wait, fail_cooldown, auxVars>>

\* The page loop of run_all_tasks ---------------------------------------

NextPage(t) ==
    IF t.page < Len(PAGE_ORDER)
    THEN [t EXCEPT !.page = @ + 1, !.step = "page"]
    ELSE [t EXCEPT !.step = "finish"]

\* navigate_to_page and what the loop does with its answer.
\*   "login": redirected to the login page (login_invalid is set)
Navigate(t, out) ==
    IF out = "ok" THEN [t EXCEPT !.step = "execute"]
    ELSE IF out = "failed" THEN NextPage([t EXCEPT !.results = "failed"])
    ELSE [t EXCEPT !.login_invalid = TRUE, !.signal = TRUE,
                   !.step = "relogin", !.ret = "navigate"]

\* the second navigate_to_page, after a successful re-login
Renavigate(t, out) ==
    IF out = "ok" THEN [t EXCEPT !.step = "execute"]
    ELSE IF out = "failed" THEN NextPage([t EXCEPT !.results = "failed"])
    ELSE NextPage([t EXCEPT !.results = "failed", !.login_invalid = TRUE,
                            !.signal = TRUE])

NavigateOutcomes == {"ok", "failed", "login"}

\* Top of a loop iteration: the login_invalid check, then the navigation
TaskPage ==
    /\ pc = "task" /\ task.step = "page"
    /\ IF task.login_invalid
       THEN task' = [task EXCEPT !.step = "relogin", !.ret = "top"]
       ELSE \E out \in NavigateOutcomes : task' = Navigate(task, out)
    /\ UNCHANGED <<poolVars, now, locks, pc, daemon_running, lease, counters, ka,
                   remaining_wait, fail_cooldown, auxVars>>

\* Navigation after the re-login at the top of the iteration succeeded
TaskNavigate ==
    /\ pc = "task" /\ task.step = "navigate"
    /\ \E out \in NavigateOutcomes : task' = Navigate(task, out)
    /\ UNCHANGED <<poolVars, now, locks, pc, daemon_running, lease, counters, ka,
                   remaining_wait, fail_cooldown, auxVars>>

TaskRenavigate ==
    /\ pc = "task" /\ task.step = "renavigate"
    /\ \E out \in NavigateOutcomes : task' = Renavigate(task, out)
    /\ UNCHANGED <<poolVars, now, locks, pc, daemon_running, lease, counters, ka,
                   remaining_wait, fail_cooldown, auxVars>>

RECURSIVE HandleEach(_, _)
HandleEach(t, names) ==
    IF names = {} THEN t
    ELSE LET n == CHOOSE x \in names : TRUE
         IN  HandleEach(handle_auth_invalid(t, n), names \ {n})

\* What execute_page_tasks hands to every extractor:
\* SHARED_SIGNATURE.get('cookies') or self.cookies
current_cookies(t) ==
    IF t.SHARED_SIGNATURE # NoCookies THEN t.SHARED_SIGNATURE ELSE t.cookies

\* execute_page_tasks and the scan of its results. Every enabled extractor of
\* the page runs; one that is answered with an invalidation code calls
\* handle_auth_invalid with its own name before it returns its failed result.
execute_page_tasks(t, page_key, outs) ==
    LET en == EnabledTasks(page_key)
        signalled == {en[k] : k \in {j \in 1..Len(en) : outs[j] = "signal"}}
        t0 == IF Len(en) = 0 THEN t
              ELSE [t EXCEPT !.current_cookies = current_cookies(t)]
        t1 == HandleEach(t0, signalled)
        bad == \E k \in 1..Len(en) : outs[k] # "ok"
        t2 == [t1 EXCEPT !.results = IF bad \/ @ = "failed" THEN "failed" ELSE "ok"]
    IN  IF signalled # {}
        THEN [t2 EXCEPT !.login_invalid = TRUE, !.signal = TRUE,
                        !.step = "relogin", !.ret = "post"]
        ELSE IF t2.login_invalid
        THEN [t2 EXCEPT !.step = "relogin", !.ret = "post"]
        ELSE NextPage(t2)

TaskExecutePage ==
    /\ pc = "task" /\ task.step = "execute"
    /\ \E outs \in [1..Len(EnabledTasks(PAGE_ORDER[task.page])) ->
                       {"ok", "failed", "signal"}] :
         task' = execute_page_tasks(task, PAGE_ORDER[task.page], outs)
    /\ UNCHANGED <<poolVars, now, locks, pc, daemon_running, lease, counters, ka,
                   remaining_wait, fail_cooldown, auxVars>>

\* _try_relogin in pool mode, from get_context on (g is its answer)
try_relogin(g, a, t, status) ==
    IF ~g.ok THEN [pool |-> g.pool, ok |-> FALSE, wrapper |-> NoWrapper]
    ELSE IF status = "logged_in"
    THEN [pool |-> Touch(g.pool, a, t), ok |-> TRUE,
          wrapper |-> WrapperOf(g.pool, a).cookies]
    ELSE [pool |-> remove_context(g.pool, a), ok |-> FALSE,
          wrapper |-> WrapperOf(g.pool, a).cookies]

\* What run_all_tasks does with the answer of _try_relogin at each call site
AfterRelogin(t, ok) ==
    LET t1 == [t EXCEPT !.relogins = @ + 1,
                        !.login_invalid = IF ok THEN FALSE ELSE @]
    IN  IF t.ret = "top"
        THEN IF ok THEN [t1 EXCEPT !.step = "navigate"]
             ELSE [report_auth_invalid(t1) EXCEPT
                      !.results = "failed", !.invalid_end = "top", !.step = "finish"]
        ELSE IF t.ret = "navigate"
        THEN IF ok THEN [t1 EXCEPT !.step = "renavigate"]
             ELSE [handle_auth_invalid(t1, "page_navigate") EXCEPT
                      !.results = "failed", !.invalid_end = "navigate",
                      !.step = "finish"]
        ELSE IF ok THEN NextPage([t1 EXCEPT !.recovered = TRUE])
             ELSE IF t1.page < Len(PAGE_ORDER) THEN NextPage(t1)
             ELSE [t1 EXCEPT !.invalid_end = "post_last", !.step = "finish"]

Relogged(r) ==
    /\ SetPool(r.pool)
    /\ task' = AfterRelogin([task EXCEPT !.wrapper = r.wrapper,
                                         !.cookies = "c2"], r.ok)

TaskRelogin ==
    /\ pc = "task" /\ task.step = "relogin"
    /\ \/ \* load_cookies_from_api raises
          /\ task' = AfterRelogin(task, FALSE)
          /\ UNCHANGED poolVars
       \/ \E es \in Engines, status \in {"logged_in", "not_logged_in"} :
            Relogged(try_relogin(
                         get_context(remove_context(Pool, lease.account),
                                     lease.account, "c2", now, es),
                         lease.account, now, status))
    /\ UNCHANGED <<now, locks, pc, daemon_running, lease, counters, ka,
                   remaining_wait, fail_cooldown, auxVars>>

\* stop_browser in pool mode: the context stays pooled, its cookies are
\* queued for upload unless the login is marked invalid
stop_browser(q, a, tk) ==
    IF tk.wrapper # NoWrapper /\ ~tk.login_invalid /\ tk.wrapper # NoCookies
    THEN put(q, a, tk.wrapper)
    ELSE q

\* run_all_tasks ends with stop_browser and returns (or the single product
\* did): status upload, the callback computed from the failed results,
\* return to main.
TaskFinish ==
    /\ pc = "task" /\ task.step = "finish"
    /\ cookie_queue' = IF lease.task_type = "all"
                       THEN stop_browser(cookie_queue, lease.account, task)
                       ELSE cookie_queue
    /\ IF task.results # "failed"
       THEN /\ task' = [task EXCEPT !.step = "returned"]
            /\ lease' = report_task_callback(lease, 2, "", 0)
            /\ Return(TRUE)
       ELSE Fail(task, "task_errors", 1)
    /\ UNCHANGED <<poolVars, now, daemon_running, ka, remaining_wait,
                   fail_cooldown, last_restart_date, uploader, ret>>

\* The finally clause of main: keepalive_service.stop(), shutdown_browser_pool()
\* (shutdown_all: cookie_upload_queue.stop(), then browser_pool.shutdown())
Shutdown ==
    /\ pc = "finally"
    /\ cookie_queue' = stop(cookie_queue, uploader).queue
    /\ uploader' = stop(cookie_queue, uploader).uploader
    /\ SetPool(shutdown(Pool))
    /\ pc' = "done"
    /\ UNCHANGED <<now, locks, daemon_running, lease, counters, task, ka,
                   remaining_wait, fail_cooldown, last_restart_date, ret>>

\* The steps of the main thread that read the clock, those that read the
\* state of the browser processes and contexts, and those that write to the
\* cookie upload queue. The passing of time, the crashes of the environment
\* and the progress of the upload worker are taken at these steps, where they
\* are observed.
ClockRead ==
    \/ pc \in {"idle", "ka_run"}
    \/ pc = "task" /\ task.step \in {"template", "start", "relogin"}

PoolRead == ClockRead \/ pc = "pretask"

\* The steps that put an envelope on the cookie upload queue
QueueWrite == pc = "ka_run" \/ (pc = "task" /\ task.step = "finish")

Next ==
    \/ ClockRead /\ Tick
    \/ \E i \in Slots : PoolRead /\ BrowserCrash(i)
    \/ \E a \in Accounts : PoolRead /\ ContextCrash(a)
    \/ QueueWrite /\ UploadWorker
    \/ StopSignal
    \/ MainLoopTop
    \/ FetchTask
    \/ IdleStep
    \/ KeepaliveRun
    \/ PreTaskCheck
    \/ CriticalSleep
    \/ TaskValidate
    \/ TaskAccount
    \/ TaskTemplate
    \/ TaskSingle
    \/ TaskStartBrowser
    \/ TaskPage
    \/ TaskNavigate
    \/ TaskRenavigate
    \/ TaskExecutePage
    \/ TaskRelogin
    \/ TaskFinish
    \/ Shutdown

Spec == Init /\ [][Next]_vars

\* ------------------------------------------------------------------------
\* Properties
\* ------------------------------------------------------------------------

\* The last report issued for the lease, and the states in which
\* execute_single_task has just returned to main.
LastTerminal == lease.terminals[Len(lease.terminals)]

TaskReturned == pc = "top" /\ task.step = "returned"

\* The account was classified invalid and the task ended for it: the initial
\* login check answered not-logged-in, or a re-login failed and stopped the run.
EndedInvalid == TaskReturned /\ task.invalid_end # "none"

\* The step of main that takes the CRITICAL branch of the pre-task check
CriticalStep == pc = "pretask" /\ pc' = "critical_sleep"

\* C1: when the main loop is about to start its next iteration or to exit,
\* a lease that carries an id has received exactly one terminal report
\* (callback SUCCEEDED, callback FAILED, or reset).
ExactlyOneTerminal ==
    (pc \in {"top", "finally", "done"} /\ lease.id # 0)
        => Len(lease.terminals) = 1

\* C2: per account, task execution (with its re-login) happens only while the
\* account lock is held by the task, keepalive only while it is held by the
\* keepalive, and never both at once.
TaskOn(a) == pc = "task" /\ lease.account = a

ReloginOn(a) == TaskOn(a) /\ task.step = "relogin"

KeepaliveOn(a) == pc = "ka_run" /\ ka.batch[ka.idx] = a

SerialisedPerAccount ==
    \A a \in Accounts :
        /\ TaskOn(a) => locks[a] = "task"
        /\ ReloginOn(a) => locks[a] = "task"
        /\ KeepaliveOn(a) => locks[a] = "keepalive"
        /\ ~(TaskOn(a) /\ KeepaliveOn(a))
        /\ locks[a] \in {"free", "task", "keepalive"}

SerialisedWitness ==
    /\ KeepaliveOn("A1")
    /\ locks["A1"] = "keepalive"
    /\ total_tasks = 1
    /\ success_tasks + failed_tasks = 1

\* C3: when a task has ended because the account was classified invalid, the
\* account-status report, the log sink and a batch report marking the active
\* product failed and every other product not-run have all been called by the
\* time the callback is sent.
InvalidEndReportsAll ==
    EndedInvalid =>
        /\ task.account_invalid
        /\ task.log_failure
        /\ task.batch_active

\* C4: when a task has ended because the account was classified invalid, its
\* callback is FAILED with retry_add = 0 and a non-empty error message.
InvalidEndFailsNoRetry ==
    EndedInvalid =>
        /\ LastTerminal.kind = "callback"
        /\ LastTerminal.status = 3
        /\ LastTerminal.retry_add = 0
        /\ LastTerminal.error_message # ""

\* C5: a page-driven task in which an invalidation signal was observed has
\* entered _try_relogin exactly once by the time it returns.
ReloginExactlyOnce ==
    (TaskReturned /\ task.signal /\ lease.task_type = "all")
        => task.relogins = 1

\* C6: a task in which an extractor observed an invalidation signal and the
\* following re-login succeeded ends without any invalidation fan-out: neither
\* the account-status report nor handle_auth_invalid has been called.
RecoveredWithoutFanout ==
    (TaskReturned /\ task.recovered) =>
        /\ ~task.fanout
        /\ ~task.account_invalid

\* C7: a task for which the pool could not supply a context ends with the
\* callback FAILED and retry_add = 1.
PoolFailureRetried ==
    (TaskReturned /\ task.pool_failed) =>
        /\ LastTerminal.kind = "callback"
        /\ LastTerminal.status = 3
        /\ LastTerminal.retry_add = 1

\* C8: on the CRITICAL branch of the pre-task check a lease with an id is
\* reset and nothing else is done for it: execute_single_task is not entered,
\* no lock is taken, no callback is sent and the counters stay as they were,
\* up to the next iteration of the main loop.
CriticalResetsOnly ==
    [][/\ CriticalStep =>
            /\ lease.id # 0 =>
                   /\ Len(lease'.terminals) = 1
                   /\ lease'.terminals[1].kind = "reset"
            /\ \A k \in DOMAIN lease'.terminals :
                   lease'.terminals[k].kind # "callback"
            /\ task' = task /\ task.step = "none"
            /\ locks' = locks
            /\ \A a \in LockKeys : locks[a] = "free"
            /\ counters' = counters
       /\ pc = "critical_sleep" =>
            /\ pc' \in {"top", "finally", "critical_sleep"}
            /\ UNCHANGED <<lease, task, locks, counters>>]_vars

CriticalResetWitness ==
    /\ pc = "critical_sleep"
    /\ lease.id # 0
    /\ Len(lease.terminals) = 1
    /\ lease.terminals[1].kind = "reset"
    /\ total_tasks = 1

HostedOn(i) == Cardinality({k \in DOMAIN contexts : contexts[k].browser_index = i})

CountersMatchContexts ==
    \A i \in Slots : browser_context_counts[i] = HostedOn(i)

\* C11: no slot hosts more contexts than max_contexts_per_browser, so the pool
\* never holds more than max_browsers * max_contexts_per_browser; and whatever
\* slot _find_available_browser returns, rebuilt or not, has room for one more.
HostedIn(P, i) ==
    Cardinality({k \in DOMAIN P.contexts : P.contexts[k].browser_index = i})

\* The pools _find_available_browser is called on: get_context calls it on
\* the pool as it is, or once the stale wrapper of the account is dropped.
FindInputs ==
    {Pool} \cup {DropStale(Pool, a) : a \in {b \in Accounts : has_context(Pool, b)}}

HasRoom(f) ==
    f.index # 0 =>
        /\ f.pool.counts[f.index] < MaxContextsPerBrowser
        /\ HostedIn(f.pool, f.index) < MaxContextsPerBrowser
        /\ is_browser_healthy(f.pool.browsers[f.index])

SlotsWithinCap ==
    /\ \A i \in Slots : HostedOn(i) <= MaxContextsPerBrowser
    /\ Len(contexts) <= MaxBrowsers * MaxContextsPerBrowser
    /\ \A P \in FindInputs, launch \in BOOLEAN :
           HasRoom(find_available_browser(P, launch))

\* The pool is at capacity with one browser dead: _find_available_browser
\* rebuilds that browser and returns it.
RebuiltSlotWitness ==
    /\ Len(contexts) = MaxBrowsers * MaxContextsPerBrowser
    /\ \A i \in Slots : HostedOn(i) = MaxContextsPerBrowser
    /\ \E i \in Slots :
           /\ browsers[i] = "dead"
           /\ find_available_browser(Pool, TRUE).index = i
           /\ find_available_browser(Pool, TRUE).pool.browsers[i] = "ok"

\* C12: the pool holds at most one context per account. get_context on an
\* account that has a context returns that context (only its last_used_at
\* moves) or removes it before it registers a replacement; re-login and the
\* daily restart leave at most one context per account.
ContextsOf(P, a) ==
    Cardinality({k \in DOMAIN P.contexts : P.contexts[k].account = a})

\* g is what get_context answers for account a in the current pool
SameOrReplaced(a, g) ==
    /\ ContextsOf(g.pool, a) <= 1
    /\ is_valid(Pool, WrapperOf(Pool, a)) =>
           /\ g.ok
           /\ g.pool = Touch(Pool, a, now)
    /\ g.ok => ContextsOf(g.pool, a) = 1

OneContextPerAccount ==
    /\ \A a \in Accounts : ContextsOf(Pool, a) <= 1
    /\ \A a \in Accounts :
           has_context(Pool, a) =>
               \A ck \in {"c1", NoCookies}, es \in EnginesFor(Pool, a) :
                   SameOrReplaced(a, get_context(Pool, a, ck, now, es))

\* A re-login has replaced the context of the account of the running task:
\* the account has one context, carrying the refreshed cookies.
ReplacedContextWitness ==
    /\ pc = "task"
    /\ task.relogins >= 1
    /\ ContextsOf(Pool, lease.account) = 1
    /\ WrapperOf(Pool, lease.account).cookies = "c2"

\* C13: when the pool holds max_browsers * max_contexts_per_browser contexts,
\* all on healthy browsers, get_context for an account that has no context
\* returns no context and leaves the contexts, the counters and the slots as
\* they were.
Saturated(P) ==
    /\ Len(P.contexts) = MaxBrowsers * MaxContextsPerBrowser
    /\ \A i \in Slots : is_browser_healthy(P.browsers[i])

SaturatedRefuses ==
    Saturated(Pool) =>
        \A a \in Accounts :
            ~has_context(Pool, a) =>
                \A ck \in {"c1", NoCookies}, es \in Engines :
                    get_context(Pool, a, ck, now, es) =
                        [pool |-> Pool, ok |-> FALSE, leaked |-> 0]

\* get_context for A3 has just returned no context, the pool being saturated
\* by A1 and A2
SaturatedWitness ==
    /\ Saturated(Pool)
    /\ has_context(Pool, "A1") /\ has_context(Pool, "A2")
    /\ ret = [op |-> "get_context", account |-> "A3", ok |-> FALSE, leaked |-> 0]

\* C14: whenever keepalive of an account succeeds, so that its
\* last_keepalive_at is advanced, an envelope for the account with its cookie
\* snapshot has been placed on the cookie upload queue in that same keepalive,
\* whatever the state of the queue.
KeepaliveAdvanced(a) ==
    \E k \in DOMAIN contexts' :
        /\ contexts'[k].account = a
        /\ contexts'[k].last_keepalive_at # NoTime
        /\ \A j \in DOMAIN contexts :
               contexts[j].account = a =>
                   contexts[j].last_keepalive_at # contexts'[k].last_keepalive_at

EnvelopeBeforeAdvance ==
    [][\A a \in Accounts :
          KeepaliveAdvanced(a) =>
              /\ Len(cookie_queue') = Len(cookie_queue) + 1
              /\ cookie_queue'[Len(cookie_queue')] =
                     Envelope(a, get_cookies(WrapperOf(Pool, a)))]_vars

\* The step is a call of perform_keepalive_batch
BatchStep == ret'.op = "perform_keepalive_batch"

\* C15: a call of perform_keepalive_batch that finds the resource verdict
\* other than NORMAL on entry requests no keepalive page, changes no
\* last_keepalive_at (nor anything else of the pool), queues no envelope and
\* does not run the daily restart check; it returns -1.
UnsafeBatchDoesNothing ==
    [][(BatchStep /\ ret'.verdict # "normal") =>
          /\ ret'.result = 0 - 1
          /\ ret'.navigated = <<>>
          /\ ret'.reported = {}
          /\ ~ret'.restarted
          /\ UNCHANGED <<poolVars, cookie_queue, last_restart_date,
                         fail_cooldown, locks>>]_vars

\* The call was refused although an account was due for keepalive and the
\* daily restart was due as well
UnsafeBatchWitness ==
    /\ ret.op = "perform_keepalive_batch"
    /\ ret.verdict # "normal"
    /\ ret.result = 0 - 1
    /\ get_accounts_needing_keepalive(Pool, fail_cooldown, now) # <<>>
    /\ locks[get_accounts_needing_keepalive(Pool, fail_cooldown, now)[1]] = "free"
    /\ HourOf(now) = BROWSER_RESTART_HOUR
    /\ last_restart_date # DateOf(now)

\* C16: a keepalive batch attempts at most batch_size accounts, each of them,
\* when selected, pooled, out of cooldown and without keepalive for
\* keepalive_interval or more (or never kept alive); the accounts longest
\* without keepalive come first; no other account has its keepalive page
\* requested. Selection follows check_and_restart, so P is the pool that
\* check_and_restart leaves.
Range(q) == {q[k] : k \in DOMAIN q}

LastKeepaliveOf(P, a) == WrapperOf(P, a).last_keepalive_at

Due(P, a) ==
    /\ has_context(P, a)
    /\ ~is_in_cooldown(fail_cooldown, a, now)
    /\ \/ LastKeepaliveOf(P, a) = NoTime
       \/ now - LastKeepaliveOf(P, a) >= KEEPALIVE_INTERVAL

SelectionOk(P, r) ==
    /\ Len(r.batch) <= KEEPALIVE_BATCH_SIZE
    /\ \A k \in DOMAIN r.batch : Due(P, r.batch[k])
    /\ \A j, k \in DOMAIN r.batch :
           j < k => /\ r.batch[j] # r.batch[k]
                    /\ LastKeepaliveOf(P, r.batch[j]) <= LastKeepaliveOf(P, r.batch[k])
    /\ \A a \in Accounts :
           (Due(P, a) /\ a \notin Range(r.batch)) =>
               /\ Len(r.batch) = KEEPALIVE_BATCH_SIZE
               /\ \A k \in DOMAIN r.batch :
                      LastKeepaliveOf(P, r.batch[k]) <= LastKeepaliveOf(P, a)
    /\ Range(r.navigated) \subseteq Range(r.batch)
    /\ r.skipped \subseteq Range(r.batch)
    /\ r.result <= Len(r.navigated)

BatchSelectsDue ==
    [][(BatchStep /\ ret'.verdict = "normal") =>
          \E es \in RestartPlansAt(last_restart_date, now) :
              SelectionOk(check_and_restart(Pool, last_restart_date, now, es).pool,
                          ret')]_vars

\* With A1 due and A2 pooled but in cooldown, the batch has requested the
\* keepalive page of A1 only and returned 1
BatchSelectsWitness ==
    /\ ret.op = "perform_keepalive_batch"
    /\ ret.batch = <<"A1">>
    /\ ret.navigated = <<"A1">>
    /\ ret.result = 1
    /\ ~ret.restarted
    /\ has_context(Pool, "A2")
    /\ is_in_cooldown(fail_cooldown, "A2", now)

\* C17: when the lock of a batch member is held as the batch reaches it, the
\* attempt is skipped: the keepalive page of the account is not requested, the
\* account is not reported and not put in cooldown, its context is the one
\* check_and_restart left, no envelope of it is queued, the call counts no
\* success for it and the lock stays with its holder.
EnvelopesOf(q, a) == {k \in DOMAIN q : q[k].account_id = a}

SkipOk(P, r) ==
    /\ \A a \in r.skipped : a \in Range(r.batch) /\ locks[a] # "free"
    /\ r.result <= Len(r.batch) - Cardinality(r.skipped)
    /\ \A a \in Range(r.batch) :
           locks[a] # "free" =>
               /\ a \notin Range(r.navigated)
               /\ a \notin r.reported
               /\ locks'[a] = locks[a]
               /\ ~is_in_cooldown(fail_cooldown', a, now)
               /\ has_context(P, a) /\ has_context(Pool', a)
               /\ WrapperOf(Pool', a) = WrapperOf(P, a)
               /\ Cardinality(EnvelopesOf(cookie_queue', a)) =
                      Cardinality(EnvelopesOf(cookie_queue, a))

LockedAttemptSkipped ==
    [][(BatchStep /\ ret'.verdict = "normal") =>
          \E es \in RestartPlansAt(last_restart_date, now) :
              SkipOk(check_and_restart(Pool, last_restart_date, now, es).pool,
                     ret')]_vars

\* A batch has skipped A1, whose lock a task holds, and returned 0
SkippedWitness ==
    /\ ret.op = "perform_keepalive_batch"
    /\ ret.skipped = {"A1"}
    /\ ret.navigated = <<>>
    /\ ret.result = 0
    /\ locks["A1"] = "task"
    /\ has_context(Pool, "A1")
    /\ ~is_in_cooldown(fail_cooldown, "A1", now)

\* C18: when the keepalive navigation of a batch member ends on a login URL,
\* the account is reported invalid and put in cooldown, its context stays the
\* one it had (same cookies, same browser, same last_keepalive_at; only its
\* last use is stamped), no envelope of it is queued and the call counts no
\* success for it.
LoginOk(P, r) ==
    /\ r.result <= Len(r.navigated) - Cardinality(r.reported)
    /\ \A a \in r.reported :
           /\ a \in Range(r.navigated)
           /\ fail_cooldown'[a] = now + KEEPALIVE_FAIL_COOLDOWN
           /\ is_in_cooldown(fail_cooldown', a, now)
           /\ has_context(P, a) /\ has_context(Pool', a)
           /\ WrapperOf(Pool', a) = [WrapperOf(P, a) EXCEPT !.last_used_at = now]
           /\ Cardinality(EnvelopesOf(cookie_queue', a)) =
                  Cardinality(EnvelopesOf(cookie_queue, a))
           /\ locks'[a] = locks[a]

LoginEndsInCooldown ==
    [][(BatchStep /\ ret'.verdict = "normal") =>
          \E es \in RestartPlansAt(last_restart_date, now) :
              LoginOk(check_and_restart(Pool, last_restart_date, now, es).pool,
                      ret')]_vars

\* A batch has found A1, kept alive once before, on a login URL: A1 is
\* reported and in cooldown, its last keepalive is the earlier one, the queue
\* is empty and the call returned 0
LoginWitness ==
    /\ ret.op = "perform_keepalive_batch"
    /\ ret.reported = {"A1"}
    /\ ret.navigated = <<"A1">>
    /\ ret.result = 0
    /\ has_context(Pool, "A1")
    /\ LastKeepaliveOf(Pool, "A1") # NoTime
    /\ LastKeepaliveOf(Pool, "A1") < now
    /\ is_in_cooldown(fail_cooldown, "A1", now)
    /\ cookie_queue = <<>>

\* C19: after restart_browsers every account pooled before has either one
\* context holding the cookie set saved from its old context or none; no other
\* account is pooled, so the pool holds at most as many contexts as before.
SavedOf(saved, a) == {saved[k].cookies : k \in {j \in DOMAIN saved : saved[j].account = a}}

RestartOk(saved) ==
    /\ \A a \in Accounts :
           has_context(Pool', a) =>
               /\ has_context(Pool, a)
               /\ ContextsOf(Pool', a) = 1
               /\ SavedOf(saved, a) = {WrapperOf(Pool', a).cookies}
               /\ WrapperOf(Pool', a).cookies = get_cookies(WrapperOf(Pool, a))
    /\ Len(contexts') <= Len(contexts)
    /\ Len(saved) = Len(contexts)

RestartRestoresSaved ==
    [][ret'.op = "restart_browsers" => RestartOk(ret'.saved)]_vars

\* A restart of a pool holding A1 with the first cookie set and A2 with the
\* second has restored A2 with the second set and lost A1
RestartWitness ==
    /\ ret.op = "restart_browsers"
    /\ Len(ret.saved) = 2
    /\ SavedOf(ret.saved, "A1") = {"c1"}
    /\ SavedOf(ret.saved, "A2") = {"c2"}
    /\ ~has_context(Pool, "A1")
    /\ has_context(Pool, "A2")
    /\ WrapperOf(Pool, "A2").cookies = "c2"

\* C20: check_and_restart restarts only at the restart hour and only when no
\* restart is recorded for the current date; a restart records the current
\* date, nothing else changes the record, and the record is never ahead of
\* the calendar: so a call that follows a restart on the same date, and a
\* call outside the restart hour, restart nothing.
RestartDue == HourOf(now) = BROWSER_RESTART_HOUR /\ last_restart_date # DateOf(now)

DailyRestartOnce ==
    [][/\ (BatchStep /\ ret'.restarted) =>
             /\ RestartDue
             /\ last_restart_date' = DateOf(now)
       /\ (BatchStep /\ ~ret'.restarted) =>
             /\ ~RestartDue \/ ret'.verdict # "normal"
             /\ last_restart_date' = last_restart_date
       /\ ~BatchStep => last_restart_date' = last_restart_date
       /\ last_restart_date' \in {NoDate} \cup 1..DateOf(now')]_vars

\* A call at the restart hour, with the resources normal, on a date whose
\* restart is already recorded, has restarted nothing
NoSecondRestartWitness ==
    /\ ret.op = "perform_keepalive_batch"
    /\ ret.verdict = "normal"
    /\ ~ret.restarted
    /\ HourOf(now) = BROWSER_RESTART_HOUR
    /\ last_restart_date = DateOf(now)
    /\ Len(contexts) > 0

\* C21: put can always be called and returns; on a queue that holds
\* COOKIE_UPLOAD_QUEUE_SIZE items it leaves the queue as it is, the offered
\* envelope being discarded; on a queue with room it appends the envelope.
PutStep == ret'.op = "put"

PutDropsNewest ==
    [][/\ uploader.offered < MaxPuts => ENABLED QueuePut("A1", "c1")
       /\ PutStep =>
             IF Len(cookie_queue) >= COOKIE_UPLOAD_QUEUE_SIZE
             THEN cookie_queue' = cookie_queue /\ ~ret'.ok
             ELSE /\ cookie_queue' =
                        Append(cookie_queue, Envelope(ret'.account, ret'.cookies))
                  /\ ret'.ok]_vars

\* A put on a full queue has returned: the queue still holds the envelope it
\* held, which is not the one offered
PutDroppedWitness ==
    /\ ret.op = "put"
    /\ ~ret.ok
    /\ Len(cookie_queue) = COOKIE_UPLOAD_QUEUE_SIZE
    /\ cookie_queue[1] # Sentinel
    /\ cookie_queue[1] # Envelope(ret.account, ret.cookies)

\* C22: for every account, the envelopes of the account handed to
\* _upload_single so far are, in order, the first of the envelopes of the
\* account that put accepted: an envelope accepted earlier is uploaded
\* earlier, within a batch and from one batch to the next.
OfAccount(q, a) == SelectSeq(q, LAMBDA e : e.account_id = a)

IsPrefix(s, t) == Len(s) <= Len(t) /\ SubSeq(t, 1, Len(s)) = s

UploadsInPutOrder ==
    \A a \in Tenants :
        IsPrefix(OfAccount(uploader.uploaded, a), OfAccount(uploader.accepted, a))

\* Three envelopes have been uploaded, two of them of A1 with different cookie
\* sets, the first set first
OrderedUploadsWitness ==
    /\ Len(uploader.uploaded) = 3
    /\ OfAccount(uploader.uploaded, "A1") =
           <<Envelope("A1", "c1"), Envelope("A1", "c2")>>
    /\ Len(OfAccount(uploader.uploaded, "A2")) = 1

\* C23: once stop() has been called the worker thread ends, and when it has
\* ended every envelope it had taken from the queue has been handed to
\* _upload_single; the sentinel is never batched or uploaded.
StopFlushesBatch ==
    /\ uploader.thread # "alive" => uploader.stopped /\ uploader.batch = <<>>
    /\ Sentinel \notin Range(uploader.batch) \cup Range(uploader.uploaded)

\* The part of C23 about the sentinel
SentinelNeverTaken ==
    Sentinel \notin Range(uploader.batch) \cup Range(uploader.uploaded)

\* The part of C23 about a worker that ends by itself
EndedWorkerFlushed ==
    uploader.thread = "done" => uploader.stopped /\ uploader.batch = <<>>

\* C24: the callback computed from a list of results is status 2 with an
\* empty error message and retry_add 0 exactly when no result of the list
\* reports failure; otherwise it is status 3 with retry_add 1 and an error
\* message that has a line for every failed result, under its task name.
NamesOf(msg) == {msg[k].task_name : k \in DOMAIN msg}

FailedIn(results) ==
    {results[k].task_name : k \in {j \in DOMAIN results : ~results[j].success}}

AuthInvalidLease(l) ==
    \E k \in DOMAIN l.terminals : l.terminals[k].error_message = "auth_status_invalid"

InvalidAuthStopsLease ==
    [][/\ AuthInvalidLease(lease') => Len(lease'.terminals) = 1
       /\ (AuthInvalidLease(lease') /\ ~AuthInvalidLease(lease)) =>
             /\ pc = "task" /\ task.step = "account"
             /\ task.results = "empty" /\ task.wrapper = NoWrapper
             /\ task.relogins = 0 /\ ~task.pool_failed /\ ~task.fanout
             /\ UNCHANGED <<poolVars, cookie_queue>>
             /\ lease'.terminals =
                   <<[kind |-> "callback", status |-> 3,
                      error_message |-> "auth_status_invalid", retry_add |-> 0]>>
             /\ task'.step = "returned" /\ task'.results = "empty"
             /\ ~task'.account_invalid
             /\ pc' = "top"
             /\ locks'[lease.account] = "free"]_vars

\* An `all` lease for an account marked invalid has been answered with its
\* one callback and counted as failed; the pool holds no context of the account
InvalidAuthWitness ==
    /\ AuthInvalidLease(lease)
    /\ Len(lease.terminals) = 1
    /\ lease.task_type = "all"
    /\ task.step = "returned"
    /\ ~has_context(Pool, lease.account)
    /\ failed_tasks = 1

TaskStepUnderStop ==
    (~daemon_running /\ pc = "task") =>
        /\ pc' \in {"task", "top", "finally"}
        /\ lease'.id = lease.id
        /\ ~daemon_running'

ClassifiedByThresholds ==
    ret.op = "check_status" =>
        /\ ret.status \in {"normal", "warning", "critical"}
        /\ ret.status = "critical" <=> (ret.cpu >= 70 \/ ret.memory >= 80)
        /\ ret.status = "warning" <=>
               /\ ~(ret.cpu >= 70 \/ ret.memory >= 80)
               /\ (ret.cpu >= 50 \/ ret.memory >= 60)
        /\ ret.status = "normal" <=> (ret.cpu < 50 /\ ret.memory < 60)
        /\ ret.safe_for_keepalive <=> ret.status = "normal"
        /\ ret.safe_for_task <=> ret.status \in {"normal", "warning"}

\* The worse dimension wins: CPU below its warning threshold, memory exactly
\* at its critical threshold, verdict CRITICAL and unsafe for both
WorseDimensionWitness ==
    /\ ret.op = "check_status"
    /\ ret.cpu = 49 /\ ret.memory = 80
    /\ ret.status = "critical"
    /\ ~ret.safe_for_keepalive /\ ~ret.safe_for_task

\* C28: an `all` lease is answered with a SUCCEEDED callback (status 2) only
\* when the run produced a result for at least one product; a run that ended
\* before any extractor ran, with an empty result list, is never reported as
\* SUCCEEDED.
SucceededHasResults ==
    (/\ TaskReturned /\ lease.task_type = "all"
     /\ lease.terminals # <<>>
     /\ LastTerminal.kind = "callback" /\ LastTerminal.status = 2)
        => task.results = "ok"

\* C29: an account that keepalive has classified invalid and reported to the
\* coordinator has its context closed and removed: when the batch that
\* reported it returns, the pool holds no context of that account.
ReportedInvalidRemoved ==
    ret.op = "perform_keepalive_batch" =>
        \A a \in ret.reported : ~has_context(Pool, a)

\* C30: after a successful re-login in pool mode, the extractors of every
\* page run afterwards in the same task receive the cookie set the re-login
\* fetched from the coordinator. (login_invalid is cleared by a successful
\* re-login only, so relogins > 0 with login_invalid false says that the last
\* re-login succeeded; task.cookies is the set it fetched; the step that
\* leaves "execute" is the run of the page's extractors.)
ExtractorsGetReloginCookies ==
    [][(/\ pc = "task" /\ task.step = "execute"
        /\ task.relogins > 0 /\ ~task.login_invalid
        /\ EnabledTasks(PAGE_ORDER[task.page]) # <<>>
        /\ task'.step # "execute")
         => task'.current_cookies = task.cookies]_vars

\* C31: envelopes still waiting in the queue when stop() is called are
\* uploaded before the consumer thread exits. stop() appends its sentinel
\* behind them, so an envelope ahead of the sentinel was accepted before
\* stop(): once the thread has ended, no such envelope is left in the queue.
WaitingAtStop(q) ==
    {k \in DOMAIN q : q[k] # Sentinel /\ \E j \in DOMAIN q : j > k /\ q[j] = Sentinel}

WaitingUploadedBeforeExit ==
    uploader.thread = "done" => WaitingAtStop(cookie_queue) = {}

\* C32: once the shutdown flag has been set the main loop obtains no new
\* lease: the step that calls fetch_task (it leaves "fetch") is never taken
\* with the running flag already false.
NoFetchAfterStop ==
    [][(pc = "fetch" /\ pc' # "fetch") => daemon_running]_vars

\* C33: the context cap is enforced in every pass of the idle wait loop,
\* whatever the resource verdict: when a pass ends the pool holds at most
\* MAX_ACTIVE_CONTEXTS contexts.
IdlePassEnforcesCap ==
    ret.op = "idle_iteration" => Len(contexts) <= MaxActiveContexts

\* C33, the part that holds: a pass whose verdict is NORMAL ends within the cap
NormalPassEnforcesCap ==
    (ret.op = "idle_iteration" /\ ret.status = "normal")
        => Len(contexts) <= MaxActiveContexts

\* C34: in every pass of the idle wait loop the pool action follows the
\* freshly sampled verdict: on CRITICAL the pass is emergency_release and
\* nothing else, on WARNING it is release_idle_contexts and nothing else, in
\* both no keepalive navigation happens, no keepalive is recorded, no envelope
\* queued, no cooldown set and no restart made; only a NORMAL pass navigates.
QuietPass ==
    /\ ret'.navigated = <<>> /\ ~ret'.restarted
    /\ UNCHANGED <<fail_cooldown, cookie_queue, last_restart_date, locks>>
    /\ \A k \in DOMAIN contexts' :
           \E j \in DOMAIN contexts : contexts'[k] = contexts[j]

VerdictSelectsAction ==
    [][ret'.op = "idle_iteration" =>
          /\ ret'.status \in {"normal", "warning", "critical"}
          /\ ret'.status = "critical" =>
                 Pool' = emergency_release(Pool) /\ QuietPass
          /\ ret'.status = "warning" =>
                 Pool' = release_idle_contexts(Pool, now) /\ QuietPass
          /\ ret'.navigated # <<>> => ret'.status = "normal"]_vars

\* A WARNING pass has ended: A1, never kept alive and so due, is still pooled
\* as it was and has not been navigated
WarningPassWitness ==
    /\ ret.op = "idle_iteration" /\ ret.status = "warning"
    /\ ret.navigated = <<>>
    /\ has_context(Pool, "A1")
    /\ WrapperOf(Pool, "A1").last_keepalive_at = NoTime
    /\ cookie_queue = <<>>

\* A NORMAL pass has navigated A1
NormalPassWitness ==
    /\ ret.op = "idle_iteration" /\ ret.status = "normal"
    /\ ret.navigated = <<"A1">>

\* C35: every engine context that get_context creates is, when the call
\* returns or gives up, either registered in the pool map (and counted on its
\* slot) or closed: the call leaves no open context that the pool does not
\* track.
NoUntrackedContext ==
    ret.op = "get_context" => ret.leaked = 0

\* C36: on a date on which the daemon runs through the restart hour the
\* daily restart is performed during that hour, whatever the resource
\* verdict: when the restart hour ends right after a pass of the idle wait
\* loop (the daemon was running and polling in that hour), the restart of
\* that date has been made.
RestartPending ==
    HourOf(now) = BROWSER_RESTART_HOUR /\ last_restart_date # DateOf(now)

RestartMadeInHour ==
    [][(/\ ret.op = "idle_iteration"
        /\ HourOf(now) = BROWSER_RESTART_HOUR
        /\ now' # now)
          => last_restart_date = DateOf(now)]_vars

\* C36, the part that holds: a NORMAL pass made while the restart is pending
\* makes it
NormalPassRestarts ==
    [][(ret'.op = "idle_iteration" /\ ret'.status = "normal" /\ RestartPending)
          => (ret'.restarted /\ last_restart_date' = DateOf(now))]_vars

\* C37: outside execute_single_task and outside _keepalive_single (at the
\* start of an iteration of the main loop in particular) no account lock is
\* held: every lock taken for a task or a keepalive has been released on
\* every way out, early returns and exceptions included; hence the acquire
\* made for a counted task never times out.
NoLockHeld == \A a \in LockKeys : locks[a] = "free"

NoLockAtIterationStart ==
    [][/\ pc \notin {"task", "ka_run"} => NoLockHeld
       /\ pc' \notin {"task", "ka_run"} => NoLockHeld'
       /\ (pc = "pretask" /\ total_tasks' # total_tasks) =>
              (pc' = "task" /\ locks'[lease.account] = "task")]_vars

\* An exception has left execute_single_task and the main loop is back at
\* the start of an iteration
RaisedTaskUnlockedWitness ==
    /\ pc = "top" /\ task.step = "raised"
    /\ total_tasks = 1
    /\ NoLockHeld

\* A keepalive batch has ended after a task and the loop is idle again
KeepaliveUnlockedWitness ==
    /\ pc = "idle" /\ total_tasks = 1
    /\ \E k \in DOMAIN contexts : contexts[k].last_keepalive_at # NoTime
    /\ NoLockHeld

\* The pooled contexts whose browser process has not died
OnHealthy == SelectSeq(contexts, LAMBDA c : browsers[c.browser_index] # "dead")

WithinCapWitness ==
    /\ ret.op = "enforce_context_limit" /\ ret.released = 0
    /\ Len(contexts) = MaxActiveContexts

\* What an emergency_release step does to the n contexts on healthy
\* processes: max(1, floor(n/2)) of them are closed (none when n = 0), the
\* least recently used ones, and each healthy slot's counter drops by the
\* number of its contexts that were closed.
HalfReleased ==
    LET n == Len(OnHealthy)
        healthy == {OnHealthy[k] : k \in DOMAIN OnHealthy}
        kept == {contexts'[k] : k \in DOMAIN contexts'}
        closed == healthy \ kept
        to_release == IF n = 0 THEN 0 ELSE IF n \div 2 > 1 THEN n \div 2 ELSE 1
    IN  /\ kept \subseteq healthy
        /\ Len(contexts') = Cardinality(kept)
        /\ Cardinality(closed) = to_release
        /\ ret'.released = to_release
        /\ \A c \in closed, d \in kept : c.last_used_at <= d.last_used_at
        /\ \A i \in Slots :
              browsers[i] # "dead" =>
                  /\ browsers'[i] = browsers[i]
                  /\ browser_context_counts'[i] =
                         browser_context_counts[i]
                           - Cardinality({c \in closed : c.browser_index = i})
        /\ n = 1 => contexts' = <<>>

LastReleasedWitness ==
    /\ ret.op = "emergency_release" /\ ret.released = 1
    /\ contexts = <<>>

\* C40: remove_context(a) is idempotent and affects only a. If a has a
\* context it leaves the map and the counter of its slot drops by one, while
\* every other account's context, every other slot's counter and every
\* process stay as they were; if a has none the call changes nothing; a
\* second call changes nothing more. No counter is ever negative.
RemoveContextOnlyA ==
    [][/\ \A i \in Slots : browser_context_counts[i] >= 0
                             /\ browser_context_counts'[i] >= 0
       /\ ret'.op = "remove_context" =>
            LET a == ret'.account
                slot == WrapperOf(Pool, a).browser_index
            IN  /\ IF has_context(Pool, a)
                   THEN /\ contexts' =
                              SelectSeq(contexts, LAMBDA c : c.account # a)
                        /\ Len(contexts') = Len(contexts) - 1
                        /\ browser_context_counts'[slot] =
                              browser_context_counts[slot] - 1
                        /\ \A i \in Slots \ {slot} :
                              browser_context_counts'[i] =
                                  browser_context_counts[i]
                   ELSE UNCHANGED <<contexts, browser_context_counts>>
                /\ UNCHANGED <<browsers, playwright>>
                /\ ~has_context(Pool', a)
                /\ remove_context(Pool', a) = Pool']_vars

\* A1's context has been removed and A2's is still pooled and counted
RemovedOneOfTwoWitness ==
    /\ ret.op = "remove_context" /\ ret.account = "A1"
    /\ Len(contexts) = 1 /\ contexts[1].account = "A2"
    /\ browser_context_counts[contexts[1].browser_index] = 1
    /\ \E i \in Slots : browsers[i] = "ok" /\ browser_context_counts[i] = 0

====
